---------------------------- MODULE Spec2Model ----------------------------
(***************************************************************************)
(* File-based IPC between the CLI-side hook bridge                         *)
(* (hooks/artifact-bridge.js) and the editor-side IPCClient                *)
(* (src/communication/IPCClient.ts).                                       *)
(*                                                                         *)
(* The module holds one state machine per component; each has its own      *)
(* specification and leaves the variables of the other components alone:   *)
(*   SpecInbound    inbox -> processed delivery of the editor side         *)
(*   SpecQueue      the editor side's outbound queue with bounded retry    *)
(*   SpecState      the state file: bridge publishes, editor observes       *)
(*   SpecIdentity   the project id both sides derive from a workspace path *)
(*   SpecParser     the bridge's plan markdown parser                      *)
(*   SpecGate       the bridge's approval gate and its handshake           *)
(*   SpecRun        one run of the bridge process: stdin, dispatch, exit   *)
(*   SpecRouter     the editor side's MessageHandler: dispatch by type     *)
(*   SpecRace       two bridge processes polling one outbox for one plan   *)
(*   SpecEndToEnd   the gate together with the editor side's approval      *)
(*   SpecPlace      writes to mailbox directories that may be missing      *)
(*   SpecSession    the session-state document under a series of hooks     *)
(*   SpecSessionRace  two bridge processes updating the document at once   *)
(* SpecInboundFair, SpecQueueFair and SpecRunFair add the fairness the     *)
(* timers and the event loop justify.                                      *)
(***************************************************************************)
EXTENDS Integers, Sequences, FiniteSets, TLC

(***************************************************************************)
(* Bounds of the model.                                                    *)
(***************************************************************************)
MaxClock == 1          \* Date.now() takes the values 0..MaxClock
MaxRand == 2           \* Math.random() suffixes are 1..MaxRand, in lexical order
MaxMessages == 2       \* envelope files the bridge writes to inbox
MaxRestarts == 1       \* restarts of the editor-side IPCClient
MaxSends == 3          \* IPCClient.send calls
MaxRetryAttempts == 2  \* config.retryAttempts is configured as 0..MaxRetryAttempts, or not at all
MaxPublishes == 3      \* broadcastClaudeState calls
MaxPathLen == 3        \* characters of a workspace path
MaxLines == 4          \* lines of a plan markdown document
MaxTimeoutSteps == 3   \* timeoutMs is 1..MaxTimeoutSteps clock steps
MaxScanSteps == 2      \* clock steps one scan of the outbox may take
MaxFiles == 2          \* response files the editor side puts in outbox
MaxDispatch == 2       \* envelopes the editor side's listener is fired with
MaxRaceFiles == 2      \* response files written while two handshakes poll
MaxHooks == 3          \* runs of the bridge on one session-state document
MaxLineCount == 2      \* lines added or removed by one tracked call

(***************************************************************************)
(* Program constants.                                                      *)
(***************************************************************************)
ACTIVE_INTERVAL == 100
IDLE_INTERVAL == 500
DefaultRetryAttempts == 3     \* DEFAULT_CONFIG.retryAttempts
FallbackRetryAttempts == 3    \* the 3 of (this.config.retryAttempts || 3)
pollInterval == 1000          \* waitForApproval: const pollInterval = 1000
DefaultTimeoutMs == 300000    \* waitForApproval(workspacePath, planId, timeoutMs = 300000)

VARIABLES
  now,                  \* Date.now(), shared wall clock
  \* ---- Inbound Delivery (IPCClient) and the bridge's inbox writes
  inbox,                \* files of the inbox directory
  processed,            \* files of the processed directory
  processedMessageIds,  \* IPCClient.processedMessageIds
  watchEvents,          \* file watcher callbacks not yet run (by message id)
  activity,             \* "recent": lastActivityTime within IDLE_THRESHOLD, else "stale"
  currentPollInterval,  \* IPCClient.currentPollInterval
  received,             \* every envelope fired on onDidReceiveMessage, in order
  restarts,             \* IPCClient instances created after the first
  written,              \* ids of the inbox files in the order the bridge created them
  \* ---- Outbound Queue (IPCClient)
  retryAttempts,        \* this.config.retryAttempts
  messageQueue,         \* IPCClient.messageQueue: [message, attempts]
  isProcessing,         \* IPCClient.isProcessing
  drainPc,              \* where processQueue is suspended: idle, written, failed, delay
  outbox,               \* the outbox files, in the order they were created
  sendLog,              \* per send call: write attempts, failures, promise, onError events
  drains,               \* processQueue calls that are past their guard and have not returned
  \* ---- State Broadcaster (bridge) and its observer (IPCClient)
  stateFile,            \* state/current.json: <<>> (absent) or <<content>>
  stateWatchPending,    \* a stateWatcher callback has not run yet
  currentClaudeState,   \* IPCClient.currentClaudeState: <<>> (null) or <<content>>
  published,            \* every broadcastClaudeState call, in order
  fired,                \* every onDidChangeClaudeState event, in order
  \* ---- Identity Resolver (both sides)
  workspacePath,        \* the workspace path, a sequence of characters
  editorProjectId,      \* IPCClient.projectId, <<>> before the constructor has run
  bridgeProjectId,      \* the bridge's generateProjectId(workspacePath), <<>> before
  \* ---- Plan Parser (bridge)
  planContent,          \* the markdown text, a sequence of characters
  parsed,               \* <<>>, or <<parsePlanMarkdown(planContent)>> once it has run
  \* ---- Approval gate (bridge, pre-invocation mode for ExitPlanMode)
  hsPc,                 \* idle, check (the while test), scan, sleep, update, exited
  timeoutMs,            \* waitForApproval's timeoutMs
  startTime,            \* waitForApproval's startTime
  scanBegan,            \* Date.now() when the running scan passed the while test
  lastScanTook,         \* how long the last finished scan took
  waitUntil,            \* waitUntil of the busy wait
  returnedAt,           \* Date.now() when waitForApproval returned
  outcome,              \* what waitForApproval returned, NoDecision before
  errorCaught,          \* handlePreExitPlanMode ended in its catch block
  exitCode,             \* process.exit code, -1 while the process runs
  planFound,            \* findLatestPlanFile returned a path
  responseFiles,        \* outbox as the handshake reads it: name, decoded content
  consumed,             \* outbox files the handshake has unlinked
  planMessages,         \* envelopes this run has written to inbox, by content
  \* ---- One run of the bridge process (main)
  stdin,                \* process.stdin: isTTY, the document sent, chunks received, ended
  stdinTimerFired,      \* the 500 ms timer of readStdin has run
  stdinData,            \* <<>> while readStdin is pending, else <<what it resolved with>>
  env,                  \* CLAUDE_TOOL_NAME and whether CLAUDE_TOOL_INPUT is JSON
  ioFails,              \* file system calls of this run throw
  runPc,                \* stdin (main awaits readStdin), exited
  runExit,              \* the exit code of the process, -1 while it runs
  runError,             \* an internal error occurred in this run
  \* ---- Message Router of the editor side (MessageHandler)
  artifacts,            \* ArtifactManager.artifacts: id -> [status, comments]
  routerSent,           \* what the handlers handed to ipcClient.send*, in order
  routerWarnings,       \* console.warn calls of the handlers
  routerErrors,         \* rejections of handleMessage caught by the listener
  reviewDialogs,        \* artifact ids whose review notification awaits an answer
  optionDialogs,        \* quick picks of handleOptionsMessage awaiting an answer
  listening,            \* the onDidReceiveMessage listener is registered
  dispatched,           \* envelopes the listener has been fired with
  lastDispatch,         \* the envelope of the latest fire
  \* ---- Two bridge processes in waitForApproval for the same plan
  raceOutbox,           \* files of the outbox directory
  racePc,               \* per handshake: loop, read, unlink, returned
  raceListing,          \* per handshake: names of its listing not yet read
  raceRead,             \* per handshake: <<file>> it has read and is about to unlink
  raceResult,           \* per handshake: what waitForApproval returned
  raceFrom,             \* per handshake: name of the file it unlinked, 0 if none
  \* ---- The user's approval on the editor side, on its way to outbox
  connected,            \* IPCClient.connected
  approval,             \* none, written (the envelope is in outbox), dropped
  \* ---- The mailbox directories
  outboxDir,            \* the outbox directory exists
  inboxDir,             \* the inbox directory exists
  diskFaults,           \* a write may fail although its directory exists
  bridgePlaced,         \* every bridge writeMessage call: was the directory there, was the file written
  \* ---- The session-state document of the bridge
  sessionFile,          \* the state file: <<>> (absent) or <<document>>
  tracked,              \* Write, Edit and rm hooks run since the last clear, in order
  walkthroughs,         \* walkthrough messages written to inbox, in order
  clears,               \* runs with --clear-session
  walksAtClear,         \* Len(walkthroughs) at the last clear
  hookRuns,             \* runs of the bridge so far
  hooks,                \* two concurrent bridge processes: position, loaded state, call
  hookOrder             \* their load and save steps, in order

inboundVars == <<inbox, processed, processedMessageIds, watchEvents, activity,
                 currentPollInterval, received, restarts, written>>

queueVars == <<retryAttempts, messageQueue, isProcessing, drainPc, outbox, sendLog,
               drains>>

stateVars == <<stateFile, stateWatchPending, currentClaudeState, published, fired>>

identityVars == <<workspacePath, editorProjectId, bridgeProjectId>>

parserVars == <<planContent, parsed>>

gateVars == <<hsPc, timeoutMs, startTime, scanBegan, lastScanTook, waitUntil,
              returnedAt, outcome, errorCaught, exitCode, planFound, responseFiles,
              consumed, planMessages>>

runVars == <<stdin, stdinTimerFired, stdinData, env, ioFails, runPc, runExit,
             runError>>

routerVars == <<artifacts, routerSent, routerWarnings, routerErrors,
                reviewDialogs, optionDialogs, listening, dispatched, lastDispatch>>

raceVars == <<raceOutbox, racePc, raceListing, raceRead, raceResult, raceFrom>>

approvalVars == <<connected, approval>>

placeVars == <<outboxDir, inboxDir, diskFaults, bridgePlaced>>

sessionVars == <<sessionFile, tracked, walkthroughs, clears, walksAtClear, hookRuns,
                 hooks, hookOrder>>

vars == <<now, inboundVars, queueVars, stateVars, identityVars, parserVars, gateVars,
          runVars,
          routerVars,
          raceVars,
          approvalVars,
          placeVars,
          sessionVars>>

notClock == <<inboundVars, queueVars, stateVars, identityVars, parserVars, gateVars,
              runVars,
              routerVars,
              raceVars,
              approvalVars,
              placeVars,
              sessionVars>>

\* What the actions of one component leave alone.
outsideInbound == <<queueVars, stateFile, published, identityVars, parserVars,
                    gateVars,
                  runVars,
                  routerVars,
                  raceVars,
                  approvalVars,
                  placeVars,
                  sessionVars>>
outsideQueue == <<inboundVars, stateVars, identityVars, parserVars, gateVars,
                  runVars,
                  routerVars,
                  raceVars,
                  approvalVars,
                  placeVars,
                  sessionVars>>
outsideState == <<inbox, processed, processedMessageIds, watchEvents,
                  currentPollInterval, received, restarts, written, queueVars,
                  identityVars,
                  parserVars, gateVars,
                  runVars,
                  routerVars,
                  raceVars,
                  approvalVars,
                  placeVars,
                  sessionVars>>
outsideIdentity == <<now, inboundVars, queueVars, stateVars, parserVars, gateVars,
                  runVars,
                  routerVars,
                  raceVars,
                  approvalVars,
                  placeVars,
                  sessionVars>>
outsideParser == <<now, inboundVars, queueVars, stateVars, identityVars, gateVars,
                  runVars,
                  routerVars,
                  raceVars,
                  approvalVars,
                  placeVars,
                  sessionVars>>
outsideGate == <<inboundVars, queueVars, currentClaudeState, fired, identityVars,
                 parserVars,
                  runVars,
                  routerVars,
                  raceVars,
                  approvalVars,
                  placeVars,
                  sessionVars>>
outsideRun == <<now, inboundVars, queueVars, stateVars, identityVars, parserVars,
                gateVars,
                  routerVars,
                  raceVars,
                  approvalVars,
                  placeVars,
                  sessionVars>>
outsideRouter == <<now, inboundVars, queueVars, stateVars, identityVars, parserVars,
                   gateVars, runVars,
                  raceVars,
                  approvalVars,
                  placeVars,
                  sessionVars>>
outsideRace == <<now, inboundVars, queueVars, stateVars, identityVars, parserVars,
                 gateVars, runVars, routerVars,
                  approvalVars,
                  placeVars,
                  sessionVars>>
outsideApproval == <<inboundVars, queueVars, stateVars, identityVars, parserVars,
                     runVars, routerVars, raceVars,
                  placeVars,
                  sessionVars>>
outsidePlace == <<now, inboundVars, queueVars, stateVars, identityVars, parserVars,
                  gateVars, runVars, routerVars, raceVars, approvalVars,
                  sessionVars>>
outsideSession == <<inboundVars, queueVars, stateVars, identityVars, parserVars,
                    gateVars, runVars, routerVars, raceVars, approvalVars, placeVars>>

(***************************************************************************)
(* Helpers on sequences and sets.                                          *)
(***************************************************************************)
Range(s) == {s[i] : i \in 1..Len(s)}

(***************************************************************************)
(* Envelopes and their files.  createMessage gives an envelope the id      *)
(* msg-{Date.now()}-{random} and the timestamp Date.now(); the file is     *)
(* named {timestamp}-{id}.json.  An id is modelled as <<time, random>>.    *)
(* A file that writeFileSync has created but not completed holds a prefix  *)
(* of the JSON text: complete = FALSE.                                     *)
(***************************************************************************)
RandSuffixes == 1..MaxRand

createMessage(t, r) == [id |-> <<t, r>>, timestamp |-> t]

FileOf(m, done) == [id |-> m.id, timestamp |-> m.timestamp, complete |-> done]

\* Lexical order of the names {timestamp}-msg-{time}-{random}.json
NameLess(f, g) ==
  \/ f.timestamp < g.timestamp
  \/ /\ f.timestamp = g.timestamp
     /\ \/ f.id[1] < g.id[1]
        \/ f.id[1] = g.id[1] /\ f.id[2] < g.id[2]

\* readdirSync(dir).filter(.json).sort()
RECURSIVE SortedFiles(_)
SortedFiles(S) ==
  IF S = {} THEN <<>>
  ELSE LET f == CHOOSE x \in S : \A y \in S \ {x} : NameLess(x, y)
       IN <<f>> \o SortedFiles(S \ {f})

FileIds(S) == {f.id : f \in S}

(***************************************************************************)
(* State Broadcaster.  broadcastClaudeState overwrites state/current.json  *)
(* with {state, description, progress, startedAt, updatedAt}; both time    *)
(* stamps are Date.now() of the call.  The observer compares the JSON text *)
(* of what it reads with that of the value it holds.                       *)
(***************************************************************************)
\* TOOL_STATE_MAP entries and clearClaudeState's idle/Ready
StateValues ==
  { [state |-> "idle", description |-> "Ready"],
    [state |-> "executing", description |-> "Writing file..."],
    [state |-> "waiting-for-approval",
     description |-> "Waiting for plan approval..."] }

\* stateData of broadcastClaudeState
stateData(v, t) ==
  [state |-> v.state, description |-> v.description, startedAt |-> t, updatedAt |-> t]

Observer == [current |-> currentClaudeState, fired |-> fired]

\* The file as writeFileSync has left it midway through a write: text that
\* JSON.parse rejects.
TornState == [torn |-> TRUE]

\* JSON.parse(content) returns
Parses(content) == "state" \in DOMAIN content

\* Variant: a changed value is emitted and not stored.
readStateFileNoStore(ob) ==
  IF stateFile = <<>> THEN ob
  ELSE IF ~Parses(stateFile[1]) THEN ob
  ELSE IF stateFile # ob.current
    THEN [current |-> ob.current,
          fired |-> Append(ob.fired, [value |-> stateFile[1],
                                      publish |-> Len(published)])]
    ELSE ob

\* Variant: every readable file is emitted, equal to the last value or not.
readStateFileAlways(ob) ==
  IF stateFile = <<>> THEN ob
  ELSE IF ~Parses(stateFile[1]) THEN ob
  ELSE [current |-> stateFile,
        fired |-> Append(ob.fired, [value |-> stateFile[1],
                                    publish |-> Len(published)])]

\* IPCClient.readStateFile on the file as it is now
readStateFile(ob) ==
  IF stateFile = <<>> THEN ob                                 \* existsSync
  ELSE IF ~Parses(stateFile[1]) THEN ob                       \* JSON.parse throws: catch
  ELSE IF stateFile # ob.current                              \* JSON.stringify differs
    THEN [current |-> stateFile,
          fired |-> Append(ob.fired, [value |-> stateFile[1],
                                      publish |-> Len(published)])]
    ELSE ob

SetObserver(ob) ==
  /\ currentClaudeState' = ob.current
  /\ fired' = ob.fired

StateStart ==
  /\ stateFile = <<>>
  /\ stateWatchPending = FALSE
  /\ currentClaudeState = <<>>
  /\ published = <<>>
  /\ fired = <<>>

\* bridge broadcastClaudeState(workspacePath, state, description)
BridgeBroadcast ==
  /\ Len(published) < MaxPublishes
  /\ \E v \in StateValues :
       /\ stateFile' = <<stateData(v, now)>>
       /\ published' = Append(published, stateData(v, now))
  /\ stateWatchPending' = TRUE
  /\ UNCHANGED <<now, activity, currentClaudeState, fired>>
  /\ UNCHANGED outsideState

\* The watcher sees current.json while a broadcastClaudeState call is
\* writing it: writeFileSync truncates and fills the file in place.
StateFileTorn ==
  /\ Len(published) < MaxPublishes
  /\ stateFile # <<TornState>>
  /\ stateFile' = <<TornState>>
  /\ stateWatchPending' = TRUE
  /\ UNCHANGED <<now, activity, currentClaudeState, fired, published>>
  /\ UNCHANGED outsideState

\* stateWatcher.onDidCreate / onDidChange: handleStateChange
StateWatchEvent ==
  /\ stateWatchPending
  /\ stateWatchPending' = FALSE
  /\ activity' = "recent"
  /\ SetObserver(readStateFile(Observer))
  /\ UNCHANGED <<now, stateFile, published>>
  /\ UNCHANGED outsideState

(***************************************************************************)
(* Inbound Delivery.  The in-memory and on-disk state a discovery step     *)
(* works on is passed around as a record mb.                               *)
(***************************************************************************)
Mailbox == [inbox |-> inbox, processed |-> processed,
            ids |-> processedMessageIds, received |-> received]

\* A plausible bug: a failed move is cleaned up by deleting the inbox file.
processIncomingFileUnlinkOnError(mb, id, renameFails) ==
  IF ~(\E f \in mb.inbox : f.id = id) THEN mb
  ELSE LET f == CHOOSE x \in mb.inbox : x.id = id IN
    IF ~f.complete THEN mb
    ELSE IF f.id \in mb.ids THEN mb
    ELSE IF f.id \in renameFails
      THEN [mb EXCEPT !.ids = @ \cup {f.id}, !.inbox = @ \ {f}]
      ELSE [mb EXCEPT !.ids = @ \cup {f.id},
                      !.inbox = @ \ {f},
                      !.processed = @ \cup {f},
                      !.received = Append(@, f.id)]

\* A plausible bug: the file is copied to processed and left in inbox.
processIncomingFileCopy(mb, id, renameFails) ==
  IF ~(\E f \in mb.inbox : f.id = id) THEN mb
  ELSE LET f == CHOOSE x \in mb.inbox : x.id = id IN
    IF ~f.complete THEN mb
    ELSE IF f.id \in mb.ids THEN mb
    ELSE IF f.id \in renameFails THEN [mb EXCEPT !.ids = @ \cup {f.id}]
    ELSE [mb EXCEPT !.ids = @ \cup {f.id},
                    !.processed = @ \cup {f},
                    !.received = Append(@, f.id)]

\* IPCClient.processIncomingFile.  renameFails: the ids whose renameSync throws.
processIncomingFile(mb, id, renameFails) ==
  IF ~(\E f \in mb.inbox : f.id = id) THEN mb               \* existsSync
  ELSE LET f == CHOOSE x \in mb.inbox : x.id = id IN
    IF ~f.complete THEN mb                                   \* JSON.parse throws
    ELSE IF f.id \in mb.ids THEN mb                          \* already processed
    ELSE IF f.id \in renameFails
      THEN [mb EXCEPT !.ids = @ \cup {f.id}]                 \* renameSync throws
      ELSE [mb EXCEPT !.ids = @ \cup {f.id},
                      !.inbox = @ \ {f},
                      !.processed = @ \cup {f},
                      !.received = Append(@, f.id)]

\* IPCClient.pollInbox: every listed file, in sorted order.
RECURSIVE processFiles(_, _, _)
processFiles(mb, files, renameFails) ==
  IF files = <<>> THEN mb
  ELSE processFiles(processIncomingFile(mb, Head(files).id, renameFails),
                    Tail(files), renameFails)

\* A plausible bug: the listing is given up at the first file that does not
\* decode.
pollInboxStopAtBadFile(mb, renameFails) ==
  LET files == SortedFiles(mb.inbox)
      bad == {i \in 1..Len(files) : ~files[i].complete}
      stop == IF bad = {} THEN Len(files) + 1
              ELSE CHOOSE i \in bad : \A j \in bad : i <= j
  IN processFiles(mb, SubSeq(files, 1, stop - 1), renameFails)

pollInbox(mb, renameFails) ==
  processFiles(mb, SortedFiles(mb.inbox), renameFails)

\* The ids whose file a listing of inbox tries to move: decodable, not seen.
Renamed(files, ids) == {f.id : f \in {g \in files : g.complete /\ g.id \notin ids}}

\* IPCClient.updatePollInterval
updatePollInterval(act) ==
  IF act = "recent" THEN ACTIVE_INTERVAL ELSE IDLE_INTERVAL

SetMailbox(mb) ==
  /\ inbox' = mb.inbox
  /\ processed' = mb.processed
  /\ processedMessageIds' = mb.ids
  /\ received' = mb.received

InboundStart ==
  /\ inbox = {}
  /\ processed = {}
  /\ processedMessageIds = {}
  /\ watchEvents = {}
  /\ activity = "stale"
  /\ currentPollInterval = IDLE_INTERVAL
  /\ received = <<>>
  /\ restarts = 0
  /\ written = <<>>

\* Time passes on the wall clock.
ClockTick ==
  /\ now < MaxClock
  /\ now' = now + 1
  /\ UNCHANGED notClock

\* bridge writeMessage(inboxPath, createMessage(..)): writeFileSync creates the file.
BridgeWriteBegin ==
  /\ Cardinality(inbox \cup processed) < MaxMessages
  /\ \E r \in RandSuffixes :
       LET m == createMessage(now, r) IN
       /\ m.id \notin FileIds(inbox \cup processed)
       /\ inbox' = inbox \cup {FileOf(m, FALSE)}
       /\ watchEvents' = watchEvents \cup {m.id}
       /\ written' = Append(written, m.id)
  /\ UNCHANGED <<now, processed, processedMessageIds, activity,
                 currentPollInterval, received, restarts>>
  /\ UNCHANGED <<outsideInbound, stateWatchPending, currentClaudeState, fired>>

\* ... and completes its content.
BridgeWriteEnd ==
  /\ \E f \in inbox :
       /\ ~f.complete
       /\ inbox' = (inbox \ {f}) \cup {[f EXCEPT !.complete = TRUE]}
       /\ watchEvents' = watchEvents \cup {f.id}
  /\ UNCHANGED <<now, processed, processedMessageIds, activity,
                 currentPollInterval, received, restarts, written>>
  /\ UNCHANGED <<outsideInbound, stateWatchPending, currentClaudeState, fired>>

\* fileWatcher.onDidCreate / onDidChange callback
WatchEvent ==
  /\ \E id \in watchEvents : \E renameFails \in SUBSET {id} :
       /\ watchEvents' = watchEvents \ {id}
       /\ activity' = "recent"
       /\ SetMailbox(processIncomingFile(Mailbox, id, renameFails))
  /\ UNCHANGED <<now, currentPollInterval, restarts, written>>
  /\ UNCHANGED <<outsideInbound, stateWatchPending, currentClaudeState, fired>>

\* The poll timer's callback: pollInbox, updatePollInterval, re-arm.
PollTick ==
  /\ \E renameFails \in SUBSET Renamed(inbox, processedMessageIds) :
       SetMailbox(pollInbox(Mailbox, renameFails))
  /\ currentPollInterval' = updatePollInterval(activity)
  /\ UNCHANGED <<now, watchEvents, activity, restarts, written>>
  /\ UNCHANGED <<outsideInbound, stateWatchPending, currentClaudeState, fired>>

\* IDLE_THRESHOLD passes without a watch event.
IdleElapse ==
  /\ activity = "recent"
  /\ activity' = "stale"
  /\ UNCHANGED <<now, inbox, processed, processedMessageIds, watchEvents,
                 currentPollInterval, received, restarts, written>>
  /\ UNCHANGED <<outsideInbound, stateWatchPending, currentClaudeState, fired>>

\* The editor restarts: a new IPCClient (empty memory, new watchers) whose
\* initialize() runs startWatching and with it the initial pollInbox.
Restart ==
  /\ restarts < MaxRestarts
  /\ restarts' = restarts + 1
  /\ watchEvents' = {}
  /\ activity' = "stale"
  /\ currentPollInterval' = IDLE_INTERVAL
  /\ \E renameFails \in SUBSET Renamed(inbox, {}) :
       SetMailbox(pollInbox([Mailbox EXCEPT !.ids = {}], renameFails))
  /\ stateWatchPending' = FALSE
  /\ SetObserver(readStateFile([current |-> <<>>, fired |-> fired]))
  /\ UNCHANGED <<now, written>>
  /\ UNCHANGED outsideInbound

(***************************************************************************)
(* Outbound Queue.  A send call is numbered n in call order; its envelope  *)
(* is [n, id, timestamp].  processQueue is an async function: it runs      *)
(* until its next await (of writeMessage, or of the retry delay), where    *)
(* other callbacks run.                                                    *)
(***************************************************************************)
\* { ...DEFAULT_CONFIG, ...config }: given is <<>> (not configured) or <<k>>.
MergeConfig(given) ==
  IF given = <<>> THEN DefaultRetryAttempts ELSE given[1]

\* (this.config.retryAttempts || 3)
RetryLimit(configured) ==
  IF configured = 0 THEN FallbackRetryAttempts ELSE configured

RECURSIVE SumFailures(_)
SumFailures(log) ==
  IF log = <<>> THEN 0 ELSE Head(log).failures + SumFailures(Tail(log))

\* A plausible bug: one attempt counter for the whole queue, not one per item.
ExhaustedSharedCounter(attempts, configured) ==
  SumFailures(sendLog) >= RetryLimit(configured)

\* A plausible bug: one attempt too many before the item is dropped.
ExhaustedOffByOne(attempts, configured) == attempts > RetryLimit(configured)

\* item.attempts >= (this.config.retryAttempts || 3)
Exhausted(attempts, configured) == attempts >= RetryLimit(configured)

QueueStart(given) ==
  /\ retryAttempts = MergeConfig(given)
  /\ messageQueue = <<>>
  /\ isProcessing = FALSE
  /\ drainPc = "idle"
  /\ outbox = <<>>
  /\ sendLog = <<>>
  /\ drains = 0

\* IPCClient.writeMessage: fs.writeFileSync(filePath, ..) on a path inside
\* outbox.  It throws (FALSE) when the directory is missing; with the
\* directory there it returns unless the disk fails.
writeFileSyncReturns(dirExists, faults) ==
  IF ~dirExists THEN {FALSE}
  ELSE IF faults THEN BOOLEAN
  ELSE {TRUE}

NewSend == [attempts |-> 0, failures |-> 0, promise |-> "pending", errors |-> 0]

\* A plausible bug: the guard of processQueue does not look at isProcessing.
processQueueReturnsOnEmpty(processing, q) == q = <<>>

\* processQueue: if (this.isProcessing || this.messageQueue.length === 0) return
processQueueReturns(processing, q) == processing \/ q = <<>>

\* A plausible bug: a new item is put in front of the queue.
enqueueMessageAtFront(q, item) == <<item>> \o q

\* enqueueMessage: this.messageQueue.push({message, attempts: 0, ..})
enqueueMessage(q, item) == Append(q, item)

\* A plausible bug: the loop ends without resetting isProcessing.
DrainLoopKeepsFlag(q, log, ok) ==
  IF q = <<>>
  THEN /\ isProcessing' = TRUE
       /\ drainPc' = "idle"
       /\ outbox' = outbox
       /\ sendLog' = log
  ELSE LET m == Head(q).message IN
       /\ isProcessing' = TRUE
       /\ drainPc' = IF ok THEN "written" ELSE "failed"
       /\ outbox' = IF ok THEN Append(outbox, m) ELSE outbox
       /\ sendLog' = [log EXCEPT ![m.n].attempts = @ + 1,
                                 ![m.n].failures = IF ok THEN @ ELSE @ + 1]

\* The loop of processQueue from its head: with an item queued, writeMessage
\* is called on the head (ok: writeFileSync returns) and awaited; with none,
\* the drain ends.  log is sendLog as the caller has left it.
DrainLoop(q, log, ok) ==
  IF q = <<>>
  THEN /\ isProcessing' = FALSE
       /\ drainPc' = "idle"
       /\ outbox' = outbox
       /\ sendLog' = log
  ELSE LET m == Head(q).message IN
       /\ isProcessing' = TRUE
       /\ drainPc' = IF ok THEN "written" ELSE "failed"
       /\ outbox' = IF ok THEN Append(outbox, m) ELSE outbox
       /\ sendLog' = [log EXCEPT ![m.n].attempts = @ + 1,
                                 ![m.n].failures = IF ok THEN @ ELSE @ + 1]

\* IPCClient.send: generateMessageId, enqueueMessage, processQueue.
Send ==
  /\ Len(sendLog) < MaxSends
  /\ \E r \in RandSuffixes, ok \in writeFileSyncReturns(outboxDir, diskFaults) :
       LET m == [n |-> Len(sendLog) + 1, id |-> <<now, r>>, timestamp |-> now]
           q == enqueueMessage(messageQueue, [message |-> m, attempts |-> 0])
           log == Append(sendLog, NewSend)
       IN /\ \A k \in 1..Len(outbox) : outbox[k].id # m.id
          /\ \A k \in 1..Len(messageQueue) : messageQueue[k].message.id # m.id
          /\ messageQueue' = q
          /\ IF processQueueReturns(isProcessing, q)
             THEN /\ sendLog' = log
                  /\ UNCHANGED <<isProcessing, drainPc, outbox, drains>>
             ELSE /\ DrainLoop(q, log, ok)
                  /\ drains' = drains + 1
  /\ UNCHANGED <<now, retryAttempts>>
  /\ UNCHANGED outsideQueue

\* processQueue resumes after await writeMessage(...).
DrainResume ==
  /\ drainPc \in {"written", "failed"}
  /\ \E ok \in writeFileSyncReturns(outboxDir, diskFaults) :
       LET item == Head(messageQueue)
           n == item.message.n
       IN IF drainPc = "written"
          THEN /\ messageQueue' = Tail(messageQueue)
               /\ DrainLoop(Tail(messageQueue),
                            [sendLog EXCEPT ![n].promise = "resolved"], ok)
          ELSE IF Exhausted(item.attempts + 1, retryAttempts)
          THEN /\ messageQueue' = Tail(messageQueue)
               /\ DrainLoop(Tail(messageQueue),
                            [sendLog EXCEPT ![n].promise = "rejected",
                                            ![n].errors = @ + 1], ok)
          ELSE /\ messageQueue' = [messageQueue EXCEPT ![1].attempts = @ + 1]
               /\ drainPc' = "delay"
               /\ UNCHANGED <<isProcessing, outbox, sendLog>>
  /\ drains' = IF messageQueue' = <<>> THEN drains - 1 ELSE drains
  /\ UNCHANGED <<now, retryAttempts>>
  /\ UNCHANGED outsideQueue

\* The retry delay's timer fires: the loop goes round with the same head.
DelayDone ==
  /\ drainPc = "delay"
  /\ \E ok \in writeFileSyncReturns(outboxDir, diskFaults) : DrainLoop(messageQueue, sendLog, ok)
  /\ UNCHANGED <<now, retryAttempts, messageQueue, drains>>
  /\ UNCHANGED outsideQueue

(***************************************************************************)
(* Identity Resolver.  A path is a sequence of one-character strings.      *)
(* crypto's md5 digest is a library function: Md5Hex8 stands for its first *)
(* hex digits as a number below 16^6, a deterministic function of the text *)
(* whose value on the empty text is that of md5 (d41d8c..).                *)
(***************************************************************************)
PathChars == {"/", "a", "B", "7", "_"}

CharCode(c) ==
  CASE c = "/" -> 47 [] c = "a" -> 97 [] c = "B" -> 66 [] c = "7" -> 55 [] OTHER -> 95

RECURSIVE Md5Hex8From(_, _)
Md5Hex8From(h, text) ==
  IF text = <<>> THEN h
  ELSE Md5Hex8From((h * 31 + CharCode(Head(text))) % 16777216, Tail(text))

Md5Hex8(text) == Md5Hex8From(13901196, text)

\* String.prototype.toLowerCase
toLowerCase(text) == [i \in 1..Len(text) |-> IF text[i] = "B" THEN "b" ELSE text[i]]

\* .replace(/[^a-z0-9]/g, '-')
ReplaceNonAlnum(text) ==
  [i \in 1..Len(text) |-> IF text[i] \in {"a", "b", "7"} THEN text[i] ELSE "-"]

\* path.basename: trailing slashes dropped, then what follows the last slash
RECURSIVE StripTrailingSlashes(_)
StripTrailingSlashes(p) ==
  IF p # <<>> /\ p[Len(p)] = "/" THEN StripTrailingSlashes(SubSeq(p, 1, Len(p) - 1))
  ELSE p

RECURSIVE AfterLastSlash(_)
AfterLastSlash(p) ==
  IF p = <<>> THEN <<>>
  ELSE IF p[Len(p)] = "/" THEN <<>>
  ELSE Append(AfterLastSlash(SubSeq(p, 1, Len(p) - 1)), p[Len(p)])

basename(p) == AfterLastSlash(StripTrailingSlashes(p))

\* A project id ${folderName}-${hash} is [folderName, hash]; the literal
\* 'default' has no hash part.
DefaultProjectId == [folderName |-> <<"d", "e", "f", "a", "u", "l", "t">>, hash |-> -1]

\* IPCClient.ts generateProjectId
generateProjectId(p) ==
  [folderName |-> ReplaceNonAlnum(toLowerCase(basename(p))), hash |-> Md5Hex8(p)]

\* IPCClient constructor: this.workspacePath ? generateProjectId(..) : 'default'
EditorProjectId(p) == IF p # <<>> THEN generateProjectId(p) ELSE DefaultProjectId

\* artifact-bridge.js generateProjectId, as getInboxPath, getOutboxPath and
\* getStatePath call it
BridgeProjectId(p) ==
  [folderName |-> ReplaceNonAlnum(toLowerCase(basename(p))), hash |-> Md5Hex8(p)]

RECURSIVE SeqsUpTo(_, _)
SeqsUpTo(S, n) ==
  IF n = 0 THEN {<<>>}
  ELSE LET shorter == SeqsUpTo(S, n - 1)
       IN shorter \cup {Append(s, c) : s \in shorter, c \in S}

IdentityStart(p) ==
  /\ workspacePath = p
  /\ editorProjectId = <<>>
  /\ bridgeProjectId = <<>>

\* new IPCClient(): the editor side derives its project id
EditorResolve ==
  /\ editorProjectId = <<>>
  /\ editorProjectId' = <<EditorProjectId(workspacePath)>>
  /\ UNCHANGED <<workspacePath, bridgeProjectId>>
  /\ UNCHANGED outsideIdentity

\* a bridge run derives the mailbox paths of its working directory
BridgeResolve ==
  /\ bridgeProjectId = <<>>
  /\ bridgeProjectId' = <<BridgeProjectId(workspacePath)>>
  /\ UNCHANGED <<workspacePath, editorProjectId>>
  /\ UNCHANGED outsideIdentity

(***************************************************************************)
(* Plan Parser.  Text is a sequence of one-character strings.  The id of a *)
(* section (section-{time}-{random}) is left out: nothing reads it.        *)
(***************************************************************************)
startsWith(s, p) == Len(s) >= Len(p) /\ SubSeq(s, 1, Len(p)) = p

substring(s, k) == SubSeq(s, k + 1, Len(s))

includes(s, x) == \E i \in 1..Len(s) : s[i] = x

IsSpace(c) == c \in {" ", "\n"}

\* The backtick character (a string of this language cannot hold one)
Backtick == "'"

\* String.prototype.trim
RECURSIVE trim(_)
trim(s) ==
  IF s = <<>> THEN s
  ELSE IF IsSpace(s[1]) THEN trim(Tail(s))
  ELSE IF IsSpace(s[Len(s)]) THEN trim(SubSeq(s, 1, Len(s) - 1))
  ELSE s

\* content.split('\n')
RECURSIVE split(_)
split(s) ==
  IF ~includes(s, "\n") THEN <<s>>
  ELSE LET k == CHOOSE i \in 1..Len(s) : s[i] = "\n" /\ \A j \in 1..(i - 1) : s[j] # "\n"
       IN <<SubSeq(s, 1, k - 1)>> \o split(SubSeq(s, k + 1, Len(s)))

\* The text between two backticks: one or more characters other than a
\* backtick, a dot, one or more of a-z
IsFileRef(s) ==
  \E d \in 2..(Len(s) - 1) :
    /\ s[d] = "."
    /\ \A i \in (d + 1)..Len(s) : s[i] \in {"a", "b", "x"}

\* line.match(..) with the g flag, the backticks removed: ticks are the
\* positions of the backticks at and after the one the scan stands on.
RECURSIVE MatchFrom(_, _)
MatchFrom(line, ticks) ==
  IF Len(ticks) < 2 THEN <<>>
  ELSE LET inner == SubSeq(line, ticks[1] + 1, ticks[2] - 1)
       IN IF IsFileRef(inner)
          THEN <<inner>> \o MatchFrom(line, Tail(Tail(ticks)))
          ELSE MatchFrom(line, Tail(ticks))

RECURSIVE TickPositions(_, _)
TickPositions(line, from) ==
  IF from > Len(line) THEN <<>>
  ELSE IF line[from] = Backtick THEN <<from>> \o TickPositions(line, from + 1)
  ELSE TickPositions(line, from + 1)

fileMatches(line) == MatchFrom(line, TickPositions(line, 1))

\* A plausible bug: the change entry is pushed for every match, the file
\* only when it is new.
RECURSIVE AddFilesEveryChange(_, _)
AddFilesEveryChange(sec, matches) ==
  IF matches = <<>> THEN sec
  ELSE LET filePath == Head(matches)
           change == [filePath |-> filePath, changeType |-> "modify",
                      description |-> <<>>]
           next == IF includes(sec.files, filePath)
                   THEN [sec EXCEPT !.changes = Append(@, change)]
                   ELSE [sec EXCEPT !.files = Append(@, filePath),
                                    !.changes = Append(@, change)]
       IN AddFilesEveryChange(next, Tail(matches))

\* if (!files.includes(filePath)) { files.push(..); changes.push(..) }
RECURSIVE AddFiles(_, _)
AddFiles(sec, matches) ==
  IF matches = <<>> THEN sec
  ELSE LET filePath == Head(matches)
           next == IF includes(sec.files, filePath) THEN sec
                   ELSE [sec EXCEPT !.files = Append(@, filePath),
                                    !.changes = Append(@, [filePath |-> filePath,
                                                           changeType |-> "modify",
                                                           description |-> <<>>])]
       IN AddFiles(next, Tail(matches))

DefaultTitle ==
  <<"I", "m", "p", "l", "e", "m", "e", "n", "t", "a", "t", "i", "o", "n", " ",
    "P", "l", "a", "n">>

\* A plausible bug: the title starts out empty.
ParserStartNoTitle ==
  [title |-> <<>>, summary |-> <<>>, sections |-> <<>>, current |-> <<>>]

ParserStart ==
  [title |-> DefaultTitle, summary |-> <<>>, sections |-> <<>>, current |-> <<>>]

\* A plausible bug: the section still open at the end of the input is lost.
CloseSectionDropOpen(st) == st.sections

\* if (currentSection) sections.push(currentSection)
CloseSection(st) ==
  IF st.current # <<>> THEN Append(st.sections, st.current[1]) ELSE st.sections

\* The body of the for loop of parsePlanMarkdown
ParseLine(st, line) ==
  IF startsWith(line, <<"#", " ">>) /\ ~includes(st.title, ":")
    THEN [st EXCEPT !.title = trim(substring(line, 2))]
  ELSE IF startsWith(line, <<"#", "#", " ">>)
    THEN [st EXCEPT !.sections = CloseSection(st),
                    !.current = <<[title |-> trim(substring(line, 3)),
                                   description |-> <<>>,
                                   files |-> <<>>,
                                   changes |-> <<>>,
                                   order |-> Len(CloseSection(st))]>>]
  ELSE IF st.current # <<>>
    THEN [st EXCEPT !.current =
            <<AddFiles([st.current[1] EXCEPT !.description = @ \o line \o <<"\n">>],
                       fileMatches(line))>>]
  ELSE IF trim(line) # <<>> /\ ~startsWith(line, <<"#">>)
    THEN [st EXCEPT !.summary = @ \o line \o <<"\n">>]
  ELSE st

RECURSIVE ParseLines(_, _)
ParseLines(st, lines) ==
  IF lines = <<>> THEN st ELSE ParseLines(ParseLine(st, Head(lines)), Tail(lines))

\* hooks/artifact-bridge.js parsePlanMarkdown
parsePlanMarkdown(content) ==
  LET st == ParseLines(ParserStart, split(content))
      sections == CloseSection(st)
  IN [title |-> st.title,
      summary |-> trim(st.summary),
      sections |-> [k \in 1..Len(sections) |->
                      [sections[k] EXCEPT !.description = trim(@)]]]

\* The lines plan documents are made of: "# A", "# B:", "## S", "## T ",
\* "x", " x ", "", "#x", two file references to a.b in backticks, and one
\* to b.a
PlanLines ==
  { <<"#", " ", "A">>, <<"#", " ", "B", ":">>,
    <<"#", "#", " ", "S">>, <<"#", "#", " ", "T", " ">>,
    <<"x">>, <<" ", "x", " ">>, <<>>, <<"#", "x">>,
    <<Backtick, "a", ".", "b", Backtick, " ", Backtick, "a", ".", "b", Backtick>>,
    <<Backtick, "b", ".", "a", Backtick>> }

RECURSIVE join(_)
join(lines) ==
  IF Len(lines) = 1 THEN lines[1]
  ELSE lines[1] \o <<"\n">> \o join(Tail(lines))

PlanContents == {join(ls) : ls \in SeqsUpTo(PlanLines, MaxLines) \ {<<>>}}

PlanStart(content) ==
  /\ planContent = content
  /\ parsed = <<>>

\* handlePreExitPlanMode / handlePlanFileWrite call parsePlanMarkdown
ParsePlan ==
  /\ parsed = <<>>
  /\ parsed' = <<parsePlanMarkdown(planContent)>>
  /\ UNCHANGED planContent
  /\ UNCHANGED outsideParser

(***************************************************************************)
(* Approval gate.  handlePreToolUse for ExitPlanMode publishes the state,  *)
(* handlePreExitPlanMode sends the plan and blocks in waitForApproval,     *)
(* which scans outbox once per poll interval.  Time moves in steps of half *)
(* a poll interval; a scan of the outbox takes time, the while test and    *)
(* the end of the busy wait do not.  The plan id (impl-plan-{hash of the   *)
(* title}) is "plan"; "other" is any other artifact id.                    *)
(***************************************************************************)
ClockStep == pollInterval \div 2

PlanId == "plan"

\* What a decoded outbox envelope holds, as far as waitForApproval reads it
Response(type, artifactId, action, selectedOptionId, customResponse) ==
  [type |-> type, artifactId |-> artifactId, action |-> action,
   selectedOptionId |-> selectedOptionId, customResponse |-> customResponse]

ResponseContents ==
  { Response("feedback", "plan", "proceed", "", ""),
    Response("feedback", "plan", "reject", "", ""),
    Response("option-response", "plan", "", "approve", ""),
    Response("option-response", "plan", "", "reject", ""),
    Response("option-response", "plan", "", "", "text"),
    Response("feedback", "other", "proceed", "", ""),
    Response("feedback", "plan", "review-submitted", "", ""),
    Response("status", "plan", "", "", "") }

NoDecision == [approved |-> FALSE, reason |-> "none"]

\* A plausible bug: the tests do not compare payload.artifactId with planId.
DecideAnyPlan(content, planId) ==
  IF content.type = "feedback" /\ content.action = "proceed"
    THEN [approved |-> TRUE, reason |-> ""]
  ELSE IF content.type = "feedback" /\ content.action = "reject"
    THEN [approved |-> FALSE, reason |-> "rejected"]
  ELSE IF content.type = "option-response" /\ content.selectedOptionId = "approve"
    THEN [approved |-> TRUE, reason |-> ""]
  ELSE IF content.type = "option-response" /\ content.selectedOptionId = "reject"
    THEN [approved |-> FALSE, reason |-> "rejected"]
  ELSE IF content.type = "option-response" /\ content.customResponse # ""
    THEN [approved |-> FALSE, reason |-> "custom"]
  ELSE NoDecision

\* The chain of if statements in the for loop of waitForApproval
Decide(content, planId) ==
  IF content.type = "feedback" /\ content.artifactId = planId
     /\ content.action = "proceed"
    THEN [approved |-> TRUE, reason |-> ""]
  ELSE IF content.type = "feedback" /\ content.artifactId = planId
          /\ content.action = "reject"
    THEN [approved |-> FALSE, reason |-> "rejected"]
  ELSE IF content.type = "option-response" /\ content.artifactId = planId
          /\ content.selectedOptionId = "approve"
    THEN [approved |-> TRUE, reason |-> ""]
  ELSE IF content.type = "option-response" /\ content.artifactId = planId
          /\ content.selectedOptionId = "reject"
    THEN [approved |-> FALSE, reason |-> "rejected"]
  ELSE IF content.type = "option-response" /\ content.artifactId = planId
          /\ content.customResponse # ""
    THEN [approved |-> FALSE, reason |-> "custom"]
  ELSE NoDecision

\* readdirSync(outboxPath).filter(.json).sort()
RECURSIVE SortByName(_)
SortByName(S) ==
  IF S = {} THEN <<>>
  ELSE LET f == CHOOSE x \in S : \A y \in S : x.name <= y.name
       IN <<f>> \o SortByName(S \ {f})

\* A plausible bug: the loop does not stop at the first deciding file, the
\* last one of the listing decides and is unlinked.
RECURSIVE ScanFilesLastHit(_, _)
ScanFilesLastHit(files, planId) ==
  IF files = <<>> THEN [hit |-> <<>>, result |-> NoDecision]
  ELSE IF Head(files).content = <<>> THEN [hit |-> <<>>, result |-> NoDecision]
  ELSE LET rest == ScanFilesLastHit(Tail(files), planId) IN
       IF rest.hit # <<>> THEN rest
       ELSE IF Decide(Head(files).content[1], planId) # NoDecision
         THEN [hit |-> <<Head(files)>>, result |-> Decide(Head(files).content[1], planId)]
       ELSE rest

\* The for loop over the sorted files: the first file that decides is the hit;
\* a file that JSON.parse cannot decode (content <<>>) throws into the catch
\* block around the whole scan.
RECURSIVE ScanFiles(_, _)
ScanFiles(files, planId) ==
  IF files = <<>> THEN [hit |-> <<>>, result |-> NoDecision]
  ELSE IF Head(files).content = <<>> THEN [hit |-> <<>>, result |-> NoDecision]
  ELSE IF Decide(Head(files).content[1], planId) # NoDecision
    THEN [hit |-> <<Head(files)>>, result |-> Decide(Head(files).content[1], planId)]
  ELSE ScanFiles(Tail(files), planId)

\* A plausible bug: the loop goes on while the elapsed time is at most timeoutMs.
LoopContinuesInclusive(elapsed, timeout) == elapsed <= timeout

\* while (Date.now() - startTime < timeoutMs)
LoopContinues(elapsed, timeout) == elapsed < timeout

\* A plausible bug: a timeout lets the gated tool run.
GateReturnTimeoutAllows(result, threw) ==
  IF threw THEN TRUE ELSE result.approved \/ result.reason = "timeout"

\* What handlePreExitPlanMode returns after waitForApproval: result.approved,
\* or true from the catch block when the status write has thrown
GateReturn(result, threw) == IF threw THEN TRUE ELSE result.approved

\* handlePreToolUse: process.exit(1) if (!approved), else process.exit(0)
ExitCodeOf(approved) == IF approved THEN 0 ELSE 1

Waiting == hsPc \in {"check", "scan", "sleep"}

GateStart(timeout) ==
  /\ hsPc = "idle"
  /\ timeoutMs = timeout
  /\ startTime = 0
  /\ scanBegan = 0
  /\ lastScanTook = 0
  /\ waitUntil = 0
  /\ returnedAt = 0
  /\ outcome = NoDecision
  /\ errorCaught = FALSE
  /\ exitCode = -1
  /\ planFound = FALSE
  /\ responseFiles = {}
  /\ consumed = {}
  /\ planMessages = <<>>

\* TOOL_STATE_MAP['ExitPlanMode'] and the idle/Ready of clearClaudeState
WaitingForApproval ==
  [state |-> "waiting-for-approval", description |-> "Waiting for plan approval..."]

IdleReady == [state |-> "idle", description |-> "Ready"]

\* broadcastClaudeState, once per element of values, all at the present time
Broadcasts(values) ==
  /\ stateFile' = <<stateData(values[Len(values)], now)>>
  /\ published' = published \o [i \in 1..Len(values) |-> stateData(values[i], now)]
  /\ stateWatchPending' = TRUE

\* handlePreToolUse for ExitPlanMode, up to the first while test of
\* waitForApproval: publish the state, find and parse the plan, write the plan
\* and the options envelope.  No plan file: return true.  A writeMessage that
\* throws (failsAt is 1 or 2): the catch block returns true.
PreExitPlanMode ==
  /\ hsPc = "idle"
  /\ \E found \in BOOLEAN, failsAt \in 0..2 :
       LET entersWait == found /\ failsAt = 0
       IN /\ planFound' = found
          /\ planMessages' = IF ~found THEN <<>>
                             ELSE SubSeq(<<"plan", "options">>, 1,
                                         IF failsAt = 0 THEN 2 ELSE failsAt - 1)
          /\ errorCaught' = (found /\ failsAt > 0)
          /\ hsPc' = IF entersWait THEN "check" ELSE "exited"
          /\ exitCode' = IF entersWait THEN -1 ELSE ExitCodeOf(TRUE)
          /\ startTime' = IF entersWait THEN now ELSE startTime
          /\ Broadcasts(IF entersWait THEN <<WaitingForApproval>>
                        ELSE <<WaitingForApproval, IdleReady>>)
  /\ UNCHANGED <<now, timeoutMs, scanBegan, lastScanTook, waitUntil, returnedAt,
                 outcome, responseFiles, consumed>>
  /\ UNCHANGED outsideGate

\* The while test, on entry and when the busy wait has reached waitUntil
LoopCheck ==
  /\ hsPc = "check" \/ (hsPc = "sleep" /\ now >= waitUntil)
  /\ IF LoopContinues(now - startTime, timeoutMs)
       THEN /\ hsPc' = "scan"
            /\ scanBegan' = now
            /\ UNCHANGED <<outcome, returnedAt>>
       ELSE /\ hsPc' = "update"
            /\ outcome' = [approved |-> FALSE, reason |-> "timeout"]
            /\ returnedAt' = now
            /\ UNCHANGED scanBegan
  /\ UNCHANGED <<now, timeoutMs, startTime, lastScanTook, waitUntil, errorCaught,
                 exitCode, planFound, responseFiles, consumed, planMessages>>
  /\ UNCHANGED <<stateFile, published, stateWatchPending>>
  /\ UNCHANGED outsideGate

\* The try block of one iteration: list, read and decode the outbox files;
\* unlink the hit and return, or set waitUntil for the busy wait.
ScanOutbox ==
  /\ hsPc = "scan"
  /\ LET scan == ScanFiles(SortByName(responseFiles), PlanId)
     IN /\ lastScanTook' = now - scanBegan
        /\ IF scan.hit # <<>>
             THEN /\ responseFiles' = responseFiles \ {scan.hit[1]}
                  /\ consumed' = consumed \cup {scan.hit[1]}
                  /\ outcome' = scan.result
                  /\ returnedAt' = now
                  /\ hsPc' = "update"
                  /\ UNCHANGED waitUntil
             ELSE /\ waitUntil' = now + pollInterval
                  /\ hsPc' = "sleep"
                  /\ UNCHANGED <<responseFiles, consumed, outcome, returnedAt>>
  /\ UNCHANGED <<now, timeoutMs, startTime, scanBegan, errorCaught, exitCode,
                 planFound, planMessages>>
  /\ UNCHANGED <<stateFile, published, stateWatchPending>>
  /\ UNCHANGED outsideGate

\* Date.now() moves on: before the hook runs, during a scan, and in the busy
\* wait, which ends as soon as Date.now() reaches waitUntil.
TimePasses ==
  /\ \/ hsPc = "idle" /\ now < ClockStep
     \/ hsPc = "scan" /\ now - scanBegan < MaxScanSteps * ClockStep
     \/ hsPc = "sleep" /\ now < waitUntil
  /\ now' = now + ClockStep
  /\ UNCHANGED notClock

\* The editor side (IPCClient.writeMessage) puts a file in outbox: a response
\* envelope, or a file that cannot be decoded (content <<>>).  stale: the file
\* is there before this handshake has started (left by an earlier one, whose
\* plan id is the same when the title is the same).  inTime: the
\* handshake is waiting and less than timeoutMs has passed since it started.
OutboxFileAppears ==
  /\ hsPc \in {"idle", "scan", "sleep"}
  /\ Cardinality(responseFiles \cup consumed) < MaxFiles
  /\ \E n \in 1..MaxFiles, c \in {<<>>} \cup {<<r>> : r \in ResponseContents} :
       /\ \A f \in responseFiles \cup consumed : f.name # n
       /\ responseFiles' = responseFiles \cup
            {[name |-> n, content |-> c,
              inTime |-> Waiting /\ now - startTime < timeoutMs,
              stale |-> hsPc = "idle"]}
  /\ UNCHANGED <<now, hsPc, timeoutMs, startTime, scanBegan, lastScanTook, waitUntil,
                 returnedAt, outcome, errorCaught, exitCode, planFound, consumed,
                 planMessages>>
  /\ UNCHANGED <<stateFile, published, stateWatchPending>>
  /\ UNCHANGED outsideGate

\* handlePreExitPlanMode after waitForApproval has returned: write the status
\* update (approved or draft), which may throw into the catch block; then
\* handlePreToolUse: clearClaudeState and process.exit.
GateExit ==
  /\ hsPc = "update"
  /\ \E threw \in BOOLEAN :
       /\ planMessages' = IF threw THEN planMessages
                          ELSE Append(planMessages,
                                      IF outcome.approved THEN "approved" ELSE "draft")
       /\ errorCaught' = threw
       /\ exitCode' = ExitCodeOf(GateReturn(outcome, threw))
  /\ hsPc' = "exited"
  /\ Broadcasts(<<IdleReady>>)
  /\ UNCHANGED <<now, timeoutMs, startTime, scanBegan, lastScanTook, waitUntil,
                 returnedAt, outcome, planFound, responseFiles, consumed>>
  /\ UNCHANGED outsideGate

(***************************************************************************)
(* One run of the bridge process.  main awaits readStdin, hands a          *)
(* PreToolUse document to handlePreToolUse, which always calls             *)
(* process.exit, and otherwise runs handlePostToolUse on the environment   *)
(* variables; an exception that leaves main reaches main().catch, which    *)
(* exits with code 1.  (The --clear-session argument is left out.)  A      *)
(* document on stdin arrives in two chunks; what has been read after one   *)
(* chunk is not JSON.                                                      *)
(***************************************************************************)
Tools == {"Write", "TodoWrite", "ExitPlanMode", "Read"}

Doc(kind, event, tool) == [kind |-> kind, event |-> event, tool |-> tool]

\* resolve(null)
Null == Doc("null", "", "")

EmptyDoc == Doc("empty", "", "")      \* white space only

Garbage == Doc("garbage", "", "")     \* not JSON

\* What the parent process may write to stdin
StdinDocs ==
  {EmptyDoc, Garbage}
    \cup {Doc("json", e, t) : e \in {"PreToolUse", "PostToolUse"}, t \in Tools}

NoEnv == [toolName |-> "", toolInputOk |-> TRUE]

\* CLAUDE_TOOL_NAME (unset: "") and CLAUDE_TOOL_INPUT (JSON or not)
Envs == [toolName : Tools \cup {""}, toolInputOk : BOOLEAN]

\* data.trim() || null of the end handler
TrimOrNull(in) ==
  IF in.received = 0 \/ in.doc.kind = "empty" THEN Null
  ELSE IF in.received = 1 THEN Garbage
  ELSE in.doc

\* What waitForApproval may return to handlePreExitPlanMode
GateResults ==
  { [approved |-> TRUE, reason |-> ""],
    [approved |-> FALSE, reason |-> "rejected"],
    [approved |-> FALSE, reason |-> "custom"],
    [approved |-> FALSE, reason |-> "timeout"] }

\* The exit code handlePreToolUse ends the process with
handlePreToolUse(doc, result, threw) ==
  IF doc.tool = "ExitPlanMode" THEN ExitCodeOf(GateReturn(result, threw)) ELSE 0

\* handlePostToolUse: TRUE when an exception leaves it.  Every handler has its
\* own try/catch; the JSON.parse(toolInput) of case 'Write' has none.
handlePostToolUse(e) ==
  /\ e.toolName # ""
  /\ e.toolName = "Write"
  /\ ~e.toolInputOk

\* main after readStdin has resolved with doc
IsPreToolUse(doc) == doc.kind = "json" /\ doc.event = "PreToolUse"

\* An internal error of the run: stdin that is not JSON, a file system call
\* that throws, tool input that is not JSON where a handler decodes it
InternalError(doc, e, io) ==
  IF IsPreToolUse(doc) THEN io
  ELSE \/ doc.kind = "garbage"
       \/ /\ e.toolName # ""
          /\ \/ io
             \/ ~e.toolInputOk /\ e.toolName \in {"Write", "TodoWrite"}

RunStart(tty, doc, e, io) ==
  /\ stdin = [isTTY |-> tty, doc |-> doc, received |-> 0, ended |-> FALSE]
  /\ stdinTimerFired = FALSE
  /\ stdinData = <<>>
  /\ env = e
  /\ ioFails = io
  /\ runPc = "stdin"
  /\ runExit = -1
  /\ runError = FALSE

\* readStdin: if (process.stdin.isTTY) resolve(null)
StdinTTY ==
  /\ stdin.isTTY
  /\ stdinData = <<>>
  /\ stdinData' = <<Null>>
  /\ UNCHANGED <<stdin, stdinTimerFired, env, ioFails, runPc, runExit, runError>>
  /\ UNCHANGED outsideRun

\* readStdin: process.stdin.on('data', ..)
StdinChunk ==
  /\ ~stdin.isTTY
  /\ ~stdin.ended
  /\ stdin.received < 2
  /\ stdinData = <<>>
  /\ stdin' = [stdin EXCEPT !.received = @ + 1]
  /\ UNCHANGED <<stdinTimerFired, stdinData, env, ioFails, runPc, runExit, runError>>
  /\ UNCHANGED outsideRun

\* readStdin: process.stdin.on('end', ..), the parent has closed the pipe
StdinEnd ==
  /\ ~stdin.isTTY
  /\ ~stdin.ended
  /\ stdin' = [stdin EXCEPT !.ended = TRUE]
  /\ stdinData' = IF stdinData = <<>> THEN <<TrimOrNull(stdin)>> ELSE stdinData
  /\ UNCHANGED <<stdinTimerFired, env, ioFails, runPc, runExit, runError>>
  /\ UNCHANGED outsideRun

\* readStdin: the setTimeout callback, if (!resolved && !data) resolve(null)
StdinTimeout ==
  /\ ~stdin.isTTY
  /\ ~stdinTimerFired
  /\ runPc = "stdin"
  /\ stdinTimerFired' = TRUE
  /\ stdinData' = IF stdinData = <<>> /\ stdin.received = 0 THEN <<Null>> ELSE stdinData
  /\ UNCHANGED <<stdin, env, ioFails, runPc, runExit, runError>>
  /\ UNCHANGED outsideRun

\* main once readStdin has resolved
MainDispatch ==
  /\ runPc = "stdin"
  /\ stdinData # <<>>
  /\ \E result \in GateResults :
       runExit' = IF IsPreToolUse(stdinData[1])
                    THEN handlePreToolUse(stdinData[1], result, ioFails)
                  ELSE IF handlePostToolUse(env) THEN 1 ELSE 0
  /\ runError' = InternalError(stdinData[1], env, ioFails)
  /\ runPc' = "exited"
  /\ UNCHANGED <<stdin, stdinTimerFired, stdinData, env, ioFails>>
  /\ UNCHANGED outsideRun

(***************************************************************************)
(* Message Router of the editor side: MessageHandler.ts.                   *)
(*                                                                         *)
(* The listener is fired with one decoded envelope at a time.  A handler   *)
(* runs to its first dialog in one step; the answer of a dialog is a later *)
(* step.  ArtifactManager.upsertArtifact is called by the handlers but its *)
(* body is not part of the sources; it is taken as "set the map entry of   *)
(* this id", which is what handleCreate and handleUpdate rely on.          *)
(***************************************************************************)
ArtifactIds == {"a1", "a2"}
EnvelopeStatuses == {"draft", "approved"}

\* IPCMessageType: feedback is a type with no case in handleMessage
HandledTypes == {"artifact", "status", "error", "state", "options", "discussion-response"}
\* the cases of handleArtifactMessage; archive has none
HandledActions == {"create", "update", "delete", "request-review"}

Envelope(type, action, id, status, hasType, payload) ==
  [type |-> type, action |-> action, artifactId |-> id, status |-> status,
   hasType |-> hasType, payload |-> payload]

\* The envelopes the listener may be fired with.  payload = FALSE is an
\* envelope with no payload object.
Envelopes ==
  {Envelope("artifact", "create", id, st, TRUE, TRUE) :
     id \in ArtifactIds, st \in EnvelopeStatuses}
  \cup {Envelope("artifact", "update", id, "approved", ty, TRUE) :
     id \in ArtifactIds, ty \in BOOLEAN}
  \cup {Envelope("artifact", a, id, "draft", FALSE, TRUE) :
     a \in {"delete", "request-review", "archive"}, id \in ArtifactIds}
  \cup {Envelope("discussion-response", "none", id, "draft", FALSE, TRUE) :
     id \in ArtifactIds}
  \cup {Envelope(t, "none", "a1", "draft", FALSE, TRUE) :
     t \in {"status", "error", "state", "options", "feedback"}}
  \cup {Envelope(t, "none", "a1", "draft", FALSE, FALSE) :
     t \in {"artifact", "error", "feedback"}}

NoEnvelope == Envelope("none", "none", "a1", "draft", FALSE, FALSE)

\* What the handlers read and write.
Handler ==
  [artifacts |-> artifacts, sent |-> routerSent, warnings |-> routerWarnings,
   errors |-> routerErrors, reviewDialogs |-> reviewDialogs,
   optionDialogs |-> optionDialogs]

SetHandler(m) ==
  /\ artifacts' = m.artifacts
  /\ routerSent' = m.sent
  /\ routerWarnings' = m.warnings
  /\ routerErrors' = m.errors
  /\ reviewDialogs' = m.reviewDialogs
  /\ optionDialogs' = m.optionDialogs

\* ArtifactManager: Map.get / has, set, delete
hasArtifact(arts, id) == id \in DOMAIN arts

upsertArtifact(arts, id, a) ==
  [i \in DOMAIN arts \cup {id} |-> IF i = id THEN a ELSE arts[i]]

\* updateArtifact: nothing when the id is unknown
updateStatus(arts, id, status) ==
  IF hasArtifact(arts, id) THEN [arts EXCEPT ![id].status = status] ELSE arts

addComment(arts, id) ==
  IF hasArtifact(arts, id) THEN [arts EXCEPT ![id].comments = @ + 1] ELSE arts

deleteArtifact(arts, id) == [i \in DOMAIN arts \ {id} |-> arts[i]]

sendError(m, code) == [m EXCEPT !.sent = Append(@, code)]

\* Mutant of warnUnknown: the default branch also answers with an error
\* message.
warnUnknownAndReply(m) ==
  [m EXCEPT !.warnings = @ + 1, !.sent = Append(@, "UNKNOWN_MESSAGE")]

\* The default branches of handleMessage and handleArtifactMessage:
\* console.warn and nothing else.
warnUnknown(m) == [m EXCEPT !.warnings = @ + 1]

handleCreate(m, p) ==
  [m EXCEPT !.artifacts =
     upsertArtifact(@, p.artifactId, [status |-> p.status, comments |-> 0])]

handleUpdate(m, p) ==
  LET id == p.artifactId IN
  IF ~hasArtifact(m.artifacts, id) /\ p.hasType
  THEN [m EXCEPT !.artifacts =
          upsertArtifact(@, id, [status |-> p.status, comments |-> 0])]
  ELSE IF ~hasArtifact(m.artifacts, id)
  THEN sendError([m EXCEPT !.warnings = @ + 1], "ARTIFACT_NOT_FOUND")
  ELSE [m EXCEPT !.artifacts =
          upsertArtifact(@, id, [m.artifacts[id] EXCEPT !.status = p.status])]

handleDelete(m, p) ==
  IF ~hasArtifact(m.artifacts, p.artifactId)
  THEN [m EXCEPT !.warnings = @ + 1]
  ELSE [m EXCEPT !.artifacts = deleteArtifact(@, p.artifactId)]

\* up to the notification "Review requested for"; ReviewAnswer is the rest
handleRequestReview(m, p) ==
  IF ~hasArtifact(m.artifacts, p.artifactId)
  THEN sendError([m EXCEPT !.warnings = @ + 1], "ARTIFACT_NOT_FOUND")
  ELSE [m EXCEPT !.artifacts = updateStatus(@, p.artifactId, "pending-review"),
                 !.reviewDialogs = @ \cup {p.artifactId}]

handleArtifactMessage(m, p) ==
  CASE p.action = "create" -> handleCreate(m, p)
    [] p.action = "update" -> handleUpdate(m, p)
    [] p.action = "delete" -> handleDelete(m, p)
    [] p.action = "request-review" -> handleRequestReview(m, p)
    [] OTHER -> warnUnknown(m)

handleDiscussionResponse(m, p) ==
  [m EXCEPT !.artifacts = addComment(@, p.artifactId)]

\* up to showQuickPick; OptionAnswer is the rest
handleOptionsMessage(m, p) == [m EXCEPT !.optionDialogs = @ + 1]

\* handleMessage rejects when a case reads a field of a payload that is
\* not there; status and the default branch only log the payload.
Rejects(e) ==
  /\ ~e.payload
  /\ e.type \in {"artifact", "error", "state", "options", "discussion-response"}

handleMessage(m, e) ==
  CASE e.type = "artifact" -> handleArtifactMessage(m, e)
    [] e.type = "status" -> m
    [] e.type = "error" -> m
    [] e.type = "state" -> m
    [] e.type = "options" -> handleOptionsMessage(m, e)
    [] e.type = "discussion-response" -> handleDiscussionResponse(m, e)
    [] OTHER -> warnUnknown(m)

\* the listener of setupMessageListener: handleMessage(message).catch(...)
onDidReceiveMessage(m, e) ==
  IF Rejects(e)
  THEN sendError([m EXCEPT !.errors = @ + 1], "HANDLER_ERROR")
  ELSE handleMessage(m, e)

RouterStart(arts) ==
  /\ artifacts = arts
  /\ routerSent = <<>>
  /\ routerWarnings = 0
  /\ routerErrors = 0
  /\ reviewDialogs = {}
  /\ optionDialogs = 0
  /\ listening = TRUE
  /\ dispatched = 0
  /\ lastDispatch = NoEnvelope

\* IPCClient fires onDidReceiveMessage with a decoded envelope.
Dispatch ==
  /\ listening
  /\ dispatched < MaxDispatch
  /\ \E e \in Envelopes :
       /\ SetHandler(onDidReceiveMessage(Handler, e))
       /\ lastDispatch' = e
  /\ dispatched' = dispatched + 1
  /\ UNCHANGED listening
  /\ UNCHANGED outsideRouter

\* The user answers (or dismisses) the notification of handleRequestReview.
ReviewAnswer ==
  /\ \E id \in reviewDialogs, action \in {"Open", "Approve", "Later"} :
       /\ reviewDialogs' = reviewDialogs \ {id}
       /\ IF action = "Approve"
          THEN /\ artifacts' = updateStatus(artifacts, id, "approved")
               /\ routerSent' = Append(routerSent, "feedback")
          ELSE UNCHANGED <<artifacts, routerSent>>
  /\ UNCHANGED <<routerWarnings, routerErrors, optionDialogs, listening,
                 dispatched, lastDispatch>>
  /\ UNCHANGED outsideRouter

\* The user picks an option of the quick pick, or dismisses it.
OptionAnswer ==
  /\ optionDialogs > 0
  /\ optionDialogs' = optionDialogs - 1
  /\ \E selected \in BOOLEAN :
       routerSent' = IF selected THEN Append(routerSent, "option-response")
                     ELSE routerSent
  /\ UNCHANGED <<artifacts, routerWarnings, routerErrors, reviewDialogs,
                 listening, dispatched, lastDispatch>>
  /\ UNCHANGED outsideRouter

\* MessageHandler.dispose: the listener is removed.
Dispose ==
  /\ listening
  /\ listening' = FALSE
  /\ UNCHANGED <<artifacts, routerSent, routerWarnings, routerErrors,
                 reviewDialogs, optionDialogs, dispatched, lastDispatch>>
  /\ UNCHANGED outsideRouter

(***************************************************************************)
(* Two handshakes on one outbox.  Each bridge process is a process of its  *)
(* own, so the file system calls of two waitForApproval loops for the same *)
(* plan interleave: the listing, each readFileSync and each unlinkSync is  *)
(* a step.  A readFileSync or unlinkSync of a file that is gone throws     *)
(* into the catch block of the iteration.  Time is not counted here: the   *)
(* while test may fail at any iteration.                                   *)
(***************************************************************************)
Handshakes == {1, 2}

RaceContents ==
  { Response("feedback", PlanId, "proceed", "", ""),
    Response("option-response", PlanId, "", "reject", "") }

\* A plausible bug: removing a file that is gone is not an error (rm -f).
unlinkSyncForce(files, f) == FALSE

\* fs.unlinkSync / fs.readFileSync throw ENOENT when the file is gone
unlinkSyncThrows(files, f) == f \notin files

RaceStart ==
  /\ raceOutbox = {}
  /\ racePc = [p \in Handshakes |-> "loop"]
  /\ raceListing = [p \in Handshakes |-> <<>>]
  /\ raceRead = [p \in Handshakes |-> <<>>]
  /\ raceResult = [p \in Handshakes |-> NoDecision]
  /\ raceFrom = [p \in Handshakes |-> 0]

\* The editor side writes a response file for the plan.
RaceWrite ==
  /\ \E n \in 1..MaxRaceFiles, c \in RaceContents :
       /\ \A p \in Handshakes : raceFrom[p] # n
       /\ \A f \in raceOutbox : f.name # n
       /\ raceOutbox' = raceOutbox \cup {[name |-> n, content |-> <<c>>]}
  /\ UNCHANGED <<racePc, raceListing, raceRead, raceResult, raceFrom>>
  /\ UNCHANGED outsideRace

\* The while test and readdirSync().sort(); after timeoutMs, the timeout.
RaceList ==
  /\ \E p \in Handshakes, expired \in BOOLEAN :
       /\ racePc[p] = "loop"
       /\ IF expired
            THEN /\ racePc' = [racePc EXCEPT ![p] = "returned"]
                 /\ raceResult' =
                      [raceResult EXCEPT ![p] = [approved |-> FALSE, reason |-> "timeout"]]
                 /\ UNCHANGED raceListing
            ELSE /\ racePc' = [racePc EXCEPT ![p] = "read"]
                 /\ raceListing' = [raceListing EXCEPT ![p] = SortByName(raceOutbox)]
                 /\ UNCHANGED raceResult
  /\ UNCHANGED <<raceOutbox, raceRead, raceFrom>>
  /\ UNCHANGED outsideRace

\* One turn of the for loop up to the unlinkSync: read and decode the next
\* file of the listing and test it.  End of the listing, or a file that is
\* gone: the busy wait, then the next iteration.
RaceRead ==
  /\ \E p \in Handshakes :
       /\ racePc[p] = "read"
       /\ IF raceListing[p] = <<>> \/ unlinkSyncThrows(raceOutbox, Head(raceListing[p]))
            THEN /\ racePc' = [racePc EXCEPT ![p] = "loop"]
                 /\ raceListing' = [raceListing EXCEPT ![p] = <<>>]
                 /\ UNCHANGED raceRead
            ELSE LET f == Head(raceListing[p]) IN
                 IF Decide(f.content[1], PlanId) # NoDecision
                   THEN /\ racePc' = [racePc EXCEPT ![p] = "unlink"]
                        /\ raceRead' = [raceRead EXCEPT ![p] = <<f>>]
                        /\ UNCHANGED raceListing
                   ELSE /\ raceListing' = [raceListing EXCEPT ![p] = Tail(@)]
                        /\ UNCHANGED <<racePc, raceRead>>
  /\ UNCHANGED <<raceOutbox, raceResult, raceFrom>>
  /\ UNCHANGED outsideRace

\* unlinkSync(filePath) and the return that follows it; an unlinkSync that
\* throws goes to the catch block, the busy wait and the next iteration.
RaceUnlink ==
  /\ \E p \in Handshakes :
       /\ racePc[p] = "unlink"
       /\ LET f == raceRead[p][1] IN
          IF unlinkSyncThrows(raceOutbox, f)
            THEN /\ racePc' = [racePc EXCEPT ![p] = "loop"]
                 /\ UNCHANGED <<raceOutbox, raceResult, raceFrom>>
            ELSE /\ raceOutbox' = raceOutbox \ {f}
                 /\ racePc' = [racePc EXCEPT ![p] = "returned"]
                 /\ raceResult' = [raceResult EXCEPT ![p] = Decide(f.content[1], PlanId)]
                 /\ raceFrom' = [raceFrom EXCEPT ![p] = f.name]
       /\ raceRead' = [raceRead EXCEPT ![p] = <<>>]
       /\ raceListing' = [raceListing EXCEPT ![p] = <<>>]
  /\ UNCHANGED outsideRace

(***************************************************************************)
(* End-to-end approval.  While the bridge waits in waitForApproval the     *)
(* user approves in the editor: Proceed in the panel fires                 *)
(* onDidSendFeedback, whose listener calls ipcClient.sendFeedback when the *)
(* client is connected; the Approve option of the quick pick calls         *)
(* ipcClient.sendOptionSelection.  The write to outbox succeeds.            *)
(***************************************************************************)
ApprovalStart(conn) ==
  /\ connected = conn
  /\ approval = "none"

\* What the editor side sends for an approval made by way of "panel"
\* (handleProceed) or of "option" (handleOptionsMessage).
ApprovalContent(way) ==
  IF way = "panel" THEN Response("feedback", PlanId, "proceed", "", "")
  ELSE Response("option-response", PlanId, "", "approve", "")

\* The user approves the plan, at any time before timeoutMs has passed
\* since waitForApproval started.  The send reaches writeMessage without an
\* await in between (the queue is idle), so the file is in outbox when the
\* call returns; a Proceed of the panel is dropped when not connected.
UserApproves ==
  /\ approval = "none"
  /\ Waiting
  /\ now - startTime < timeoutMs
  /\ \E way \in {"panel", "option"} :
       IF way = "panel" /\ ~connected
         THEN /\ approval' = "dropped"
              /\ UNCHANGED responseFiles
         ELSE /\ approval' = "written"
              /\ responseFiles' = responseFiles \cup
                   {[name |-> 1, content |-> <<ApprovalContent(way)>>,
                     inTime |-> TRUE, stale |-> FALSE]}
  /\ UNCHANGED <<now, connected, hsPc, timeoutMs, startTime, scanBegan,
                 lastScanTook, waitUntil, returnedAt, outcome, errorCaught,
                 exitCode, planFound, consumed, planMessages>>
  /\ UNCHANGED outsideApproval

(***************************************************************************)
(* Mailbox directories.  initialize() has created outbox                   *)
(* (ensureDirectories); inbox is there or not when the bridge runs.  A     *)
(* directory can be removed at any time.  The editor side writes through   *)
(* its outbound queue (Send, DrainResume, DelayDone), the bridge through   *)
(* its writeMessage.  In this component no write fails for any reason      *)
(* other than a missing directory.                                         *)
(***************************************************************************)
PlaceStart(inDir, faults) ==
  /\ outboxDir = TRUE
  /\ inboxDir = inDir
  /\ diskFaults = faults
  /\ bridgePlaced = <<>>

\* Somebody removes the outbox directory.
RemoveOutboxDir ==
  /\ outboxDir
  /\ outboxDir' = FALSE
  /\ UNCHANGED <<inboxDir, diskFaults, bridgePlaced>>
  /\ UNCHANGED outsidePlace

\* Somebody removes the inbox directory.
RemoveInboxDir ==
  /\ inboxDir
  /\ inboxDir' = FALSE
  /\ UNCHANGED <<outboxDir, diskFaults, bridgePlaced>>
  /\ UNCHANGED outsidePlace

\* bridge writeMessage(inboxPath, message): mkdirSync(recursive), then
\* writeFileSync.
BridgePlace ==
  /\ Len(bridgePlaced) < MaxMessages
  /\ inboxDir' = TRUE
  /\ bridgePlaced' = Append(bridgePlaced, [dirBefore |-> inboxDir, written |-> TRUE])
  /\ UNCHANGED <<outboxDir, diskFaults>>
  /\ UNCHANGED outsidePlace

(***************************************************************************)
(* Session State.  The document is a JSON object: fields names the         *)
(* properties it has; sessionId and startedAt carry the clock value of     *)
(* their creation; changedFiles is the list of entries.  One run of the    *)
(* bridge handles one post-invocation hook, or --clear-session.            *)
(***************************************************************************)
SessionPaths == {"a", "b"}

LineCounts == 1..MaxLineCount

\* A tracked call as the handlers pass it to addFileChange:
\* handleWrite ('create', lines of content, 0), handleEdit ('modify', lines
\* of new_string, lines of old_string), handleBash on rm ('delete', 0, 0).
TrackedCalls ==
  [filePath : SessionPaths, changeType : {"create"}, linesAdded : LineCounts,
   linesRemoved : {0}]
  \cup [filePath : SessionPaths, changeType : {"modify"}, linesAdded : LineCounts,
        linesRemoved : LineCounts]
  \cup [filePath : SessionPaths, changeType : {"delete"}, linesAdded : {0},
        linesRemoved : {0}]

\* The object loadState returns when there is no readable file.
FreshState(t) ==
  [fields |-> {"sessionId", "startedAt", "changedFiles", "keyPoints"},
   startedAt |-> t,
   changedFiles |-> <<>>]

\* let state = {} of handleEnterPlanMode
EmptyObject == [fields |-> {}, startedAt |-> 0, changedFiles |-> <<>>]

\* loadState(workspacePath)
loadState(file, t) == IF file # <<>> THEN file[1] ELSE FreshState(t)

\* saveState(workspacePath, state): the file as written
saveState(state) == <<[state EXCEPT !.fields = @ \cup {"updatedAt"}]>>

\* state.changedFiles.find(..) on a document without changedFiles: TypeError
Throws(state) == "changedFiles" \notin state.fields

\* Variant: a path already tracked gets a new entry with count 1 in place of
\* the old one.
addFileChangeOverwrite(state, call) ==
  LET hits == {i \in 1..Len(state.changedFiles) :
                 state.changedFiles[i].filePath = call.filePath}
      entry == [filePath |-> call.filePath, changeType |-> call.changeType,
                linesAdded |-> call.linesAdded, linesRemoved |-> call.linesRemoved,
                changeCount |-> 1]
  IN IF hits # {}
     THEN LET i == CHOOSE j \in hits : \A k \in hits : j <= k
          IN [state EXCEPT !.changedFiles[i] = entry]
     ELSE [state EXCEPT !.changedFiles = Append(@, entry)]

\* addFileChange between its loadState and its saveState
addFileChange(state, call) ==
  LET hits == {i \in 1..Len(state.changedFiles) :
                 state.changedFiles[i].filePath = call.filePath}
  IN IF hits # {}
     THEN LET i == CHOOSE j \in hits : \A k \in hits : j <= k      \* find
          IN [state EXCEPT !.changedFiles[i] =
                [@ EXCEPT !.linesAdded = @ + call.linesAdded,
                          !.linesRemoved = @ + call.linesRemoved,
                          !.changeCount = @ + 1]]
     ELSE [state EXCEPT !.changedFiles =
             Append(@, [filePath |-> call.filePath, changeType |-> call.changeType,
                        linesAdded |-> call.linesAdded,
                        linesRemoved |-> call.linesRemoved,
                        changeCount |-> 1])]

\* updateWalkthroughArtifact(workspacePath, state): the action of its message
WalkthroughAction(state) ==
  IF "walkthroughCreated" \in state.fields THEN "update" ELSE "create"

\* A handler from its addFileChange on, given the state loaded: the file it
\* leaves (the second saveState of a first create included) and the
\* walkthrough message it writes.
TrackAndReport(state, call) ==
  LET s1 == addFileChange(state, call)
  IN [file |-> saveState([s1 EXCEPT !.fields = @ \cup {"walkthroughCreated"}]),
      message |-> [action |-> WalkthroughAction(s1), final |-> FALSE]]

Procs == {1, 2}

NoCall == [filePath |-> "", changeType |-> "", linesAdded |-> 0, linesRemoved |-> 0]

IdleHook == [pc |-> "idle", state |-> EmptyObject, call |-> NoCall]

SessionStart(file, hist) ==
  /\ sessionFile = file
  /\ tracked = hist
  /\ walkthroughs = <<>>
  /\ clears = 0
  /\ walksAtClear = 0
  /\ hookRuns = 0
  /\ hooks = [p \in Procs |-> IdleHook]
  /\ hookOrder = <<>>

\* A document an earlier run has left: one tracked Write, walkthrough created.
EarlierCall ==
  [filePath |-> "a", changeType |-> "create", linesAdded |-> 1, linesRemoved |-> 0]

EarlierFile == TrackAndReport(FreshState(0), EarlierCall).file

\* handleWrite, handleEdit, handleBash (rm): addFileChange and
\* updateWalkthroughArtifact inside the handler's try; the catch logs.
TrackedHook ==
  /\ hookRuns < MaxHooks
  /\ hookRuns' = hookRuns + 1
  /\ \E call \in TrackedCalls :
       LET state == loadState(sessionFile, now) IN
       /\ tracked' = Append(tracked, call)
       /\ IF Throws(state)
          THEN UNCHANGED <<sessionFile, walkthroughs>>
          ELSE /\ sessionFile' = TrackAndReport(state, call).file
               /\ walkthroughs' = Append(walkthroughs, TrackAndReport(state, call).message)
  /\ UNCHANGED <<now, clears, walksAtClear, hooks, hookOrder>>
  /\ UNCHANGED outsideSession

\* handleBash on a command that is no rm, handleTodoWrite with a task not
\* completed: the state file is not touched.
UntrackedHook ==
  /\ hookRuns < MaxHooks
  /\ hookRuns' = hookRuns + 1
  /\ UNCHANGED <<now, sessionFile, tracked, walkthroughs, clears, walksAtClear,
                 hooks, hookOrder>>
  /\ UNCHANGED outsideSession

\* handleTodoWrite with every task completed: finalizeWalkthrough loads the
\* state and writes a walkthrough message with action 'create'.
TodoWriteAllCompleted ==
  /\ hookRuns < MaxHooks
  /\ hookRuns' = hookRuns + 1
  /\ walkthroughs' = Append(walkthroughs, [action |-> "create", final |-> TRUE])
  /\ UNCHANGED <<now, sessionFile, tracked, clears, walksAtClear, hooks, hookOrder>>
  /\ UNCHANGED outsideSession

\* handleEnterPlanMode: the file parsed, or {} when there is none, gets
\* currentPlanId and planStartTime and is written back.
EnterPlanMode ==
  /\ hookRuns < MaxHooks
  /\ hookRuns' = hookRuns + 1
  /\ LET state == IF sessionFile # <<>> THEN sessionFile[1] ELSE EmptyObject
     IN sessionFile' =
          <<[state EXCEPT !.fields = @ \cup {"currentPlanId", "planStartTime"}]>>
  /\ UNCHANGED <<now, tracked, walkthroughs, clears, walksAtClear, hooks, hookOrder>>
  /\ UNCHANGED outsideSession

\* handleClearSession: unlinkSync of the state file when it exists.
ClearSession ==
  /\ hookRuns < MaxHooks
  /\ hookRuns' = hookRuns + 1
  /\ sessionFile' = <<>>
  /\ tracked' = <<>>
  /\ clears' = clears + 1
  /\ walksAtClear' = Len(walkthroughs)
  /\ UNCHANGED <<now, walkthroughs, hooks, hookOrder>>
  /\ UNCHANGED outsideSession

\* Two processes, one tracked call each.  addFileChange of process p: loadState.
HookLoad(p) ==
  /\ hooks[p].pc = "idle"
  /\ \E call \in TrackedCalls :
       /\ hooks' = [hooks EXCEPT ![p] = [pc |-> "loaded",
                                         state |-> loadState(sessionFile, now),
                                         call |-> call]]
       /\ tracked' = Append(tracked, call)
  /\ hookOrder' = Append(hookOrder, [proc |-> p, step |-> "load"])
  /\ UNCHANGED <<now, sessionFile, walkthroughs, clears, walksAtClear, hookRuns>>
  /\ UNCHANGED outsideSession

\* ... and its saveState, with the walkthrough message that follows.
HookSave(p) ==
  /\ hooks[p].pc = "loaded"
  /\ hooks' = [hooks EXCEPT ![p].pc = "done"]
  /\ sessionFile' = TrackAndReport(hooks[p].state, hooks[p].call).file
  /\ walkthroughs' = Append(walkthroughs,
                            TrackAndReport(hooks[p].state, hooks[p].call).message)
  /\ hookOrder' = Append(hookOrder, [proc |-> p, step |-> "save"])
  /\ UNCHANGED <<now, tracked, clears, walksAtClear, hookRuns>>
  /\ UNCHANGED outsideSession

(***************************************************************************)
(* Specifications: one per component.                                      *)
(***************************************************************************)
NextInbound ==
  \/ ClockTick
  \/ BridgeWriteBegin
  \/ BridgeWriteEnd
  \/ WatchEvent
  \/ PollTick
  \/ IdleElapse
  \/ Restart

InitInbound ==
  /\ now = 0
  /\ InboundStart
  /\ QueueStart(<<>>)
  /\ StateStart
  /\ IdentityStart(<<>>)
  /\ PlanStart(<<>>)
  /\ GateStart(DefaultTimeoutMs)
  /\ RunStart(TRUE, EmptyDoc, NoEnv, FALSE)
  /\ RouterStart(<<>>)
  /\ RaceStart
  /\ ApprovalStart(TRUE)
  /\ PlaceStart(TRUE, TRUE)
  /\ SessionStart(<<>>, <<>>)

SpecInbound == InitInbound /\ [][NextInbound]_vars

\* A poll tick on which no renameSync throws.
PollTickOk ==
  /\ SetMailbox(pollInbox(Mailbox, {}))
  /\ currentPollInterval' = updatePollInterval(activity)
  /\ UNCHANGED <<now, watchEvents, activity, restarts, written>>
  /\ UNCHANGED <<outsideInbound, stateWatchPending, currentClaudeState, fired>>

\* The poll timer re-arms itself for ever, and a failing move is transient:
\* ticks on which every move succeeds keep coming.
SpecInboundFair == InitInbound /\ [][NextInbound]_vars /\ WF_vars(PollTickOk)

NextQueue ==
  \/ ClockTick
  \/ Send
  \/ DrainResume
  \/ DelayDone

InitQueue ==
  /\ now = 0
  /\ InboundStart
  /\ StateStart
  /\ IdentityStart(<<>>)
  /\ PlanStart(<<>>)
  /\ GateStart(DefaultTimeoutMs)
  /\ \E given \in {<<>>} \cup {<<k>> : k \in 0..MaxRetryAttempts} : QueueStart(given)
  /\ RunStart(TRUE, EmptyDoc, NoEnv, FALSE)
  /\ RouterStart(<<>>)
  /\ RaceStart
  /\ ApprovalStart(TRUE)
  /\ PlaceStart(TRUE, TRUE)
  /\ SessionStart(<<>>, <<>>)

SpecQueue == InitQueue /\ [][NextQueue]_vars

NextState ==
  \/ ClockTick
  \/ BridgeBroadcast
  \/ StateFileTorn
  \/ StateWatchEvent
  \/ IdleElapse

InitState ==
  /\ now = 0
  /\ InboundStart
  /\ QueueStart(<<>>)
  /\ StateStart
  /\ IdentityStart(<<>>)
  /\ PlanStart(<<>>)
  /\ GateStart(DefaultTimeoutMs)
  /\ RunStart(TRUE, EmptyDoc, NoEnv, FALSE)
  /\ RouterStart(<<>>)
  /\ RaceStart
  /\ ApprovalStart(TRUE)
  /\ PlaceStart(TRUE, TRUE)
  /\ SessionStart(<<>>, <<>>)

SpecState == InitState /\ [][NextState]_vars

NextIdentity ==
  \/ EditorResolve
  \/ BridgeResolve

InitIdentity ==
  /\ now = 0
  /\ InboundStart
  /\ QueueStart(<<>>)
  /\ StateStart
  /\ \E p \in SeqsUpTo(PathChars, MaxPathLen) : IdentityStart(p)
  /\ PlanStart(<<>>)
  /\ GateStart(DefaultTimeoutMs)
  /\ RunStart(TRUE, EmptyDoc, NoEnv, FALSE)
  /\ RouterStart(<<>>)
  /\ RaceStart
  /\ ApprovalStart(TRUE)
  /\ PlaceStart(TRUE, TRUE)
  /\ SessionStart(<<>>, <<>>)

SpecIdentity == InitIdentity /\ [][NextIdentity]_vars

NextParser ==
  \/ ParsePlan

InitParser ==
  /\ now = 0
  /\ InboundStart
  /\ QueueStart(<<>>)
  /\ StateStart
  /\ IdentityStart(<<>>)
  /\ \E content \in PlanContents : PlanStart(content)
  /\ GateStart(DefaultTimeoutMs)
  /\ RunStart(TRUE, EmptyDoc, NoEnv, FALSE)
  /\ RouterStart(<<>>)
  /\ RaceStart
  /\ ApprovalStart(TRUE)
  /\ PlaceStart(TRUE, TRUE)
  /\ SessionStart(<<>>, <<>>)

SpecParser == InitParser /\ [][NextParser]_vars

NextGate ==
  \/ PreExitPlanMode
  \/ LoopCheck
  \/ ScanOutbox
  \/ TimePasses
  \/ OutboxFileAppears
  \/ GateExit

InitGate ==
  /\ now = 0
  /\ InboundStart
  /\ QueueStart(<<>>)
  /\ StateStart
  /\ IdentityStart(<<>>)
  /\ PlanStart(<<>>)
  /\ \E k \in 1..MaxTimeoutSteps : GateStart(k * ClockStep)
  /\ RunStart(TRUE, EmptyDoc, NoEnv, FALSE)
  /\ RouterStart(<<>>)
  /\ RaceStart
  /\ ApprovalStart(TRUE)
  /\ PlaceStart(TRUE, TRUE)
  /\ SessionStart(<<>>, <<>>)

SpecGate == InitGate /\ [][NextGate]_vars

NextRun ==
  \/ StdinTTY
  \/ StdinChunk
  \/ StdinEnd
  \/ StdinTimeout
  \/ MainDispatch

InitRun ==
  /\ now = 0
  /\ InboundStart
  /\ QueueStart(<<>>)
  /\ StateStart
  /\ IdentityStart(<<>>)
  /\ PlanStart(<<>>)
  /\ GateStart(DefaultTimeoutMs)
  /\ \E tty \in BOOLEAN, doc \in StdinDocs, e \in Envs, io \in BOOLEAN :
       RunStart(tty, doc, e, io)
  /\ RouterStart(<<>>)
  /\ RaceStart
  /\ ApprovalStart(TRUE)
  /\ PlaceStart(TRUE, TRUE)
  /\ SessionStart(<<>>, <<>>)

SpecRun == InitRun /\ [][NextRun]_vars

\* The timer of readStdin fires and the program takes its steps; when the
\* parent process writes to stdin or closes it is up to the parent.
SpecRunFair ==
  /\ InitRun
  /\ [][NextRun]_vars
  /\ WF_vars(StdinTTY)
  /\ WF_vars(StdinTimeout)
  /\ WF_vars(MainDispatch)

NextRouter ==
  \/ Dispatch
  \/ ReviewAnswer
  \/ OptionAnswer
  \/ Dispose

\* The artifacts loaded from storage are any of the bounded maps.
InitRouter ==
  /\ now = 0
  /\ InboundStart
  /\ QueueStart(<<>>)
  /\ StateStart
  /\ IdentityStart(<<>>)
  /\ PlanStart(<<>>)
  /\ GateStart(DefaultTimeoutMs)
  /\ RunStart(TRUE, EmptyDoc, NoEnv, FALSE)
  /\ \E known \in SUBSET ArtifactIds :
       RouterStart([i \in known |-> [status |-> "draft", comments |-> 0]])
  /\ RaceStart
  /\ ApprovalStart(TRUE)
  /\ PlaceStart(TRUE, TRUE)
  /\ SessionStart(<<>>, <<>>)

SpecRouter == InitRouter /\ [][NextRouter]_vars

NextRace ==
  \/ RaceWrite
  \/ RaceList
  \/ RaceRead
  \/ RaceUnlink

InitRace ==
  /\ now = 0
  /\ InboundStart
  /\ QueueStart(<<>>)
  /\ StateStart
  /\ IdentityStart(<<>>)
  /\ PlanStart(<<>>)
  /\ GateStart(DefaultTimeoutMs)
  /\ RunStart(TRUE, EmptyDoc, NoEnv, FALSE)
  /\ RouterStart(<<>>)
  /\ RaceStart
  /\ ApprovalStart(TRUE)
  /\ PlaceStart(TRUE, TRUE)
  /\ SessionStart(<<>>, <<>>)

SpecRace == InitRace /\ [][NextRace]_vars

NextEndToEnd ==
  \/ PreExitPlanMode
  \/ LoopCheck
  \/ ScanOutbox
  \/ TimePasses
  \/ GateExit
  \/ UserApproves

InitEndToEnd ==
  /\ now = 0
  /\ InboundStart
  /\ QueueStart(<<>>)
  /\ StateStart
  /\ IdentityStart(<<>>)
  /\ PlanStart(<<>>)
  /\ \E k \in 1..MaxTimeoutSteps : GateStart(k * ClockStep)
  /\ RunStart(TRUE, EmptyDoc, NoEnv, FALSE)
  /\ RouterStart(<<>>)
  /\ RaceStart
  /\ \E conn \in BOOLEAN : ApprovalStart(conn)
  /\ PlaceStart(TRUE, TRUE)
  /\ SessionStart(<<>>, <<>>)

\* The bridge process runs on: its loop, its clock, its exit.
SpecEndToEnd ==
  /\ InitEndToEnd /\ [][NextEndToEnd]_vars
  /\ WF_vars(LoopCheck) /\ WF_vars(ScanOutbox) /\ WF_vars(TimePasses)
  /\ WF_vars(GateExit)

\* The event loop runs processQueue on after each await: the microtask of
\* writeMessage's promise and the timer of the retry delay.
SpecQueueFair ==
  /\ InitQueue
  /\ [][NextQueue]_vars
  /\ WF_vars(DrainResume)
  /\ WF_vars(DelayDone)

NextPlace ==
  \/ ClockTick
  \/ Send
  \/ DrainResume
  \/ DelayDone
  \/ RemoveOutboxDir
  \/ RemoveInboxDir
  \/ BridgePlace

InitPlace ==
  /\ now = 0
  /\ InboundStart
  /\ QueueStart(<<>>)
  /\ StateStart
  /\ IdentityStart(<<>>)
  /\ PlanStart(<<>>)
  /\ GateStart(DefaultTimeoutMs)
  /\ RunStart(TRUE, EmptyDoc, NoEnv, FALSE)
  /\ RouterStart(<<>>)
  /\ RaceStart
  /\ ApprovalStart(TRUE)
  /\ \E inDir \in BOOLEAN : PlaceStart(inDir, FALSE)
  /\ SessionStart(<<>>, <<>>)

SpecPlace == InitPlace /\ [][NextPlace]_vars

NextSession ==
  \/ ClockTick
  \/ TrackedHook
  \/ UntrackedHook
  \/ TodoWriteAllCompleted
  \/ EnterPlanMode
  \/ ClearSession

InitSession ==
  /\ now = 0
  /\ InboundStart
  /\ QueueStart(<<>>)
  /\ StateStart
  /\ IdentityStart(<<>>)
  /\ PlanStart(<<>>)
  /\ GateStart(DefaultTimeoutMs)
  /\ RunStart(TRUE, EmptyDoc, NoEnv, FALSE)
  /\ RouterStart(<<>>)
  /\ RaceStart
  /\ ApprovalStart(TRUE)
  /\ PlaceStart(TRUE, TRUE)
  /\ \/ SessionStart(<<>>, <<>>)
     \/ SessionStart(EarlierFile, <<EarlierCall>>)

SpecSession == InitSession /\ [][NextSession]_vars

NextSessionRace ==
  \/ \E p \in Procs : HookLoad(p)
  \/ \E p \in Procs : HookSave(p)

SpecSessionRace == InitSession /\ [][NextSessionRace]_vars

(***************************************************************************)
(* Claims.                                                                 *)
(***************************************************************************)

(***************************************************************************)
(* C1  At-most-once delivery: over any sequence of watch events, poll      *)
(* ticks and restarts of the IPCClient, no message id is fired on          *)
(* onDidReceiveMessage twice; every fired id belongs to a file that was    *)
(* moved to processed.                                                     *)
(***************************************************************************)
C1_AtMostOnce ==
  /\ \A i, j \in 1..Len(received) : received[i] = received[j] => i = j
  /\ Range(received) \subseteq FileIds(processed)

\* A restarted client (its memory lacks an id already delivered and moved)
\* has run discovery and delivered a later message.
C1_Witness ==
  /\ restarts >= 1
  /\ \E f \in processed :
       /\ f.id \in Range(received)
       /\ f.id \notin processedMessageIds
  /\ \E g \in processed : g.id \in processedMessageIds


(***************************************************************************)
(* C2  Outbox ordering: when no write has failed, the outbox files, taken  *)
(* in the order of their send calls, have strictly increasing names        *)
(* ({timestamp}-{id}.json in lexical order), sends within one millisecond  *)
(* included.                                                               *)
(***************************************************************************)
C2_OutboxSortedInSendOrder ==
  (\A n \in 1..Len(sendLog) : sendLog[n].failures = 0) =>
    \A i, j \in 1..Len(outbox) :
      outbox[i].n < outbox[j].n => NameLess(outbox[i], outbox[j])

(***************************************************************************)
(* C3  Retry bound.  As claimed: a send whose promise is rejected was      *)
(* attempted exactly config.retryAttempts times.                           *)
(***************************************************************************)
C3_AttemptsEqualConfigured ==
  \A n \in 1..Len(sendLog) :
    sendLog[n].promise = "rejected" => sendLog[n].attempts = retryAttempts

\* The attempts a message gets: the configured number, or 3 when that is 0.
C3_Budget == IF retryAttempts >= 1 THEN retryAttempts ELSE 3

(***************************************************************************)
(* C3 (amended)  Retry bound: for every configured retryAttempts >= 1, and *)
(* with 3 in place of a configured 0, a message is never attempted more    *)
(* often than that; a message whose write has failed that many times has   *)
(* its promise rejected and exactly one onError event as soon as the drain *)
(* loop resumes; no other message gets an onError event or a rejection.    *)
(***************************************************************************)
C3_RetryBound ==
  \A n \in 1..Len(sendLog) :
    LET e == sendLog[n]
        resuming == /\ drainPc = "failed"
                    /\ messageQueue # <<>>
                    /\ Head(messageQueue).message.n = n
    IN /\ e.attempts <= C3_Budget
       /\ e.promise = "rejected" =>
            e.attempts = C3_Budget /\ e.failures = C3_Budget /\ e.errors = 1
       /\ e.promise # "rejected" => e.errors = 0
       /\ e.failures = C3_Budget => e.promise = "rejected" \/ resuming
       /\ e.promise = "rejected" =>
            \A k \in 1..Len(messageQueue) : messageQueue[k].message.n # n

\* A message was dropped after a configured, non-default number of attempts,
\* each of which failed.
C3_Witness ==
  /\ retryAttempts = 2
  /\ \E n \in 1..Len(sendLog) :
       /\ sendLog[n].promise = "rejected"
       /\ sendLog[n].failures = 2
       /\ sendLog[n].errors = 1

(***************************************************************************)
(* C6  State debouncing: two broadcastClaudeState calls in a row with the  *)
(* same state and description make the observer fire                       *)
(* onDidChangeClaudeState at most once between them and the next publish.  *)
(***************************************************************************)
C6_SamePublishFiresOnce ==
  \A k \in 1..(Len(published) - 1) :
    ( /\ published[k].state = published[k + 1].state
      /\ published[k].description = published[k + 1].description )
    => Cardinality({i \in 1..Len(fired) : fired[i].publish \in {k, k + 1}}) <= 1

(***************************************************************************)
(* C7  Identity agreement: for every workspace path, the empty path        *)
(* included, the project id of the editor side equals the project id of    *)
(* the bridge, and the empty path gives the fixed identifier 'default' on  *)
(* both sides.                                                             *)
(***************************************************************************)
C7_SameProjectId ==
  (editorProjectId # <<>> /\ bridgeProjectId # <<>>) =>
    /\ editorProjectId = bridgeProjectId
    /\ workspacePath = <<>> => bridgeProjectId = <<DefaultProjectId>>

\* The lines of the input that start with the given prefix, in order
HeadingLines(prefix) ==
  LET RECURSIVE Pick(_)
      Pick(lines) ==
        IF lines = <<>> THEN <<>>
        ELSE IF startsWith(Head(lines), prefix)
          THEN <<Head(lines)>> \o Pick(Tail(lines))
          ELSE Pick(Tail(lines))
  IN Pick(split(planContent))

(***************************************************************************)
(* C8  Plan title: when the input has a level-1 heading line ("# ..."),    *)
(* the title returned is the text of the first such line, whatever level-1 *)
(* heading lines follow.                                                   *)
(***************************************************************************)
C8_TitleIsFirstH1 ==
  (parsed # <<>> /\ HeadingLines(<<"#", " ">>) # <<>>) =>
    parsed[1].title = trim(substring(HeadingLines(<<"#", " ">>)[1], 2))

(***************************************************************************)
(* C9  Plan sections: the sections returned are, in order, one per         *)
(* level-2 heading line ("## ...") of the input, each titled by its        *)
(* heading and with order equal to its position counted from 0; a section  *)
(* still open at the end of the input is the last one.                     *)
(***************************************************************************)
C9_OneSectionPerH2 ==
  parsed # <<>> =>
    LET hs == HeadingLines(<<"#", "#", " ">>)
        sections == parsed[1].sections
    IN /\ Len(sections) = Len(hs)
       /\ \A k \in 1..Len(sections) :
            /\ sections[k].title = trim(substring(hs[k], 3))
            /\ sections[k].order = k - 1

\* A document of two distinct sections whose last line is the second heading
\* has been parsed.
C9_Witness ==
  /\ parsed # <<>>
  /\ Len(parsed[1].sections) = 2
  /\ parsed[1].sections[1].title # parsed[1].sections[2].title
  /\ startsWith(split(planContent)[Len(split(planContent))], <<"#", "#", " ">>)

\* waitForApproval has returned
Returned == hsPc \in {"update", "exited"} /\ outcome # NoDecision

\* No file that is or was in outbox decides for the plan
NoMatchEver ==
  \A f \in responseFiles \cup consumed :
    f.content = <<>> \/ Decide(f.content[1], PlanId) = NoDecision

(***************************************************************************)
(* C4  Approval handshake, approve: if a feedback file with action proceed *)
(* for the plan appears in outbox before timeoutMs has passed since        *)
(* waitForApproval started (here: as the only file there ever is), then    *)
(* waitForApproval returns approved and the file is gone afterwards.       *)
(***************************************************************************)
C4_ProceedInTimeApproves ==
  \A f \in responseFiles \cup consumed :
    ( /\ Returned
      /\ f.content = <<Response("feedback", PlanId, "proceed", "", "")>>
      /\ f.inTime
      /\ responseFiles \cup consumed = {f} )
    => outcome.approved /\ f \notin responseFiles

(***************************************************************************)
(* C5  Approval handshake, timeout.  As claimed: when no file matching the *)
(* plan ever appears, waitForApproval returns reason timeout, no earlier   *)
(* than timeoutMs and no later than timeoutMs plus one poll interval after *)
(* it started.                                                             *)
(***************************************************************************)
C5_TimeoutWithinOnePoll ==
  (Returned /\ NoMatchEver) =>
    /\ outcome = [approved |-> FALSE, reason |-> "timeout"]
    /\ returnedAt - startTime >= timeoutMs
    /\ returnedAt - startTime <= timeoutMs + pollInterval

(***************************************************************************)
(* C5 (amended)  Approval handshake, timeout: when no file matching the    *)
(* plan ever appears, waitForApproval returns reason timeout; a timeout is *)
(* returned no earlier than timeoutMs after the start and earlier than     *)
(* timeoutMs plus one poll interval plus the time the last scan of the     *)
(* outbox took; and while waitForApproval has not returned, less time than *)
(* that has passed, so it returns as time goes on.                         *)
(***************************************************************************)
C5_TimeoutWithinScanMargin ==
  /\ (Returned /\ NoMatchEver) => outcome = [approved |-> FALSE, reason |-> "timeout"]
  /\ (Returned /\ outcome.reason = "timeout") =>
       /\ returnedAt - startTime >= timeoutMs
       /\ returnedAt - startTime < timeoutMs + pollInterval + lastScanTook
  /\ Waiting =>
       now - startTime < timeoutMs + pollInterval
                         + (IF hsPc = "scan" THEN now - scanBegan ELSE lastScanTook)

\* A handshake whose last scan took time, with a file in outbox that does not
\* decide, has timed out later than timeoutMs plus one poll interval.
C5_Witness ==
  /\ Returned
  /\ outcome.reason = "timeout"
  /\ responseFiles # {}
  /\ lastScanTook > 0
  /\ returnedAt - startTime > timeoutMs + pollInterval

(***************************************************************************)
(* C10  Gate outcome.  As claimed: with a plan file found, the bridge      *)
(* exits with code 0 only when the handshake outcome is approved, and with *)
(* code 1 on every other outcome (rejected, timeout, custom response).     *)
(***************************************************************************)
C10_ExitZeroOnlyWhenApproved ==
  (hsPc = "exited" /\ planFound) =>
    /\ exitCode = 0 => outcome.approved
    /\ outcome.reason \in {"rejected", "custom", "timeout"} => exitCode = 1

(***************************************************************************)
(* C10 (amended)  Gate outcome: with a plan file found, the bridge exits   *)
(* with code 0 exactly when the handshake outcome is approved or a mailbox *)
(* write has thrown (before the handshake or when writing the status       *)
(* update after it); every non-approved outcome (rejected, timeout, custom *)
(* response) whose draft status update is written exits with code 1, a     *)
(* timeout exactly as a rejection.                                         *)
(***************************************************************************)
C10_ExitCodeFollowsOutcome ==
  (hsPc = "exited" /\ planFound) =>
    /\ exitCode \in {0, 1}
    /\ exitCode = 0 <=> (outcome.approved \/ errorCaught)
    /\ (outcome.reason \in {"rejected", "custom", "timeout"} /\ ~errorCaught) =>
         /\ exitCode = 1
         /\ planMessages = <<"plan", "options", "draft">>

\* The gate has exited with code 1 after a handshake that timed out.
C10_Witness ==
  /\ hsPc = "exited"
  /\ planFound
  /\ outcome.reason = "timeout"
  /\ exitCode = 1

(***************************************************************************)
(* C11  Fail-open: a run of the bridge in which an internal error occurs   *)
(* (stdin that is not JSON, tool input that is not JSON, a file system     *)
(* call that throws), in pre-invocation or post-invocation mode, ends      *)
(* with exit code 0, never 1.                                              *)
(***************************************************************************)
C11_FailOpen == (runPc = "exited" /\ runError) => runExit = 0

(***************************************************************************)
(* C12  FIFO under retry: whatever the interleaving of send calls and      *)
(* write failures, the outbox files are written in the order of their      *)
(* send calls, each at most once; the queue holds the unsettled sends in   *)
(* call order; nothing queued behind the head has been written or          *)
(* attempted; and a message whose write has failed and whose promise is    *)
(* pending is the head of the queue.                                       *)
(***************************************************************************)
C12_FifoUnderRetry ==
  /\ \A i, j \in 1..Len(outbox) : i < j => outbox[i].n < outbox[j].n
  /\ \A i, j \in 1..Len(messageQueue) :
       i < j => messageQueue[i].message.n < messageQueue[j].message.n
  /\ \A k \in 2..Len(messageQueue) :
       /\ sendLog[messageQueue[k].message.n].attempts = 0
       /\ \A i \in 1..Len(outbox) : outbox[i].n < messageQueue[k].message.n
  /\ \A n \in 1..Len(sendLog) :
       (sendLog[n].failures > 0 /\ sendLog[n].promise = "pending"
        /\ \A i \in 1..Len(outbox) : outbox[i].n # n)
       => (messageQueue # <<>> /\ Head(messageQueue).message.n = n)

\* A message whose first write failed was written on a retry, and a message
\* sent while it was being retried was written after it.
C12_Witness ==
  /\ Len(outbox) >= 2
  /\ sendLog[outbox[1].n].failures >= 1
  /\ sendLog[outbox[2].n].promise = "resolved"

(***************************************************************************)
(* C13  Single drain loop: at every moment at most one processQueue call   *)
(* is past its guard (and isProcessing says whether one is); a send made   *)
(* while a drain is in progress, a retry delay included, calls             *)
(* processQueue without effect: no file is written, no attempt is made and *)
(* no second drain starts.                                                 *)
(***************************************************************************)
C13_SingleDrain ==
  /\ [](drains <= 1 /\ (isProcessing <=> drains = 1))
  /\ [][(isProcessing /\ Len(sendLog') = Len(sendLog) + 1) =>
          /\ outbox' = outbox
          /\ drains' = drains
          /\ drainPc' = drainPc
          /\ \A n \in 1..Len(sendLog) : sendLog'[n] = sendLog[n]]_vars

\* A send has been made during the retry delay of an earlier one.
C13_Witness ==
  /\ drainPc = "delay"
  /\ drains = 1
  /\ Len(messageQueue) >= 2

(***************************************************************************)
(* C14  Move-once consume: at every moment no message file is in both      *)
(* inbox and processed; no step makes a file that is in one of them        *)
(* disappear from both, a failed renameSync included; a file enters        *)
(* processed only by leaving inbox in the same step, and once in           *)
(* processed it stays there and never returns to inbox, so it is moved at  *)
(* most once.                                                              *)
(***************************************************************************)
C14_MoveOnce ==
  /\ [](FileIds(inbox) \cap FileIds(processed) = {})
  /\ [][ /\ FileIds(inbox \cup processed) \subseteq FileIds(inbox' \cup processed')
         /\ processed \subseteq processed'
         /\ \A f \in processed' \ processed :
              f \in inbox /\ f.id \notin FileIds(inbox') ]_vars

\* One file has been moved; the move of another has failed, and that file is
\* still in inbox, its id already in the processed-id set.
C14_Witness ==
  /\ processed # {}
  /\ \E f \in inbox : f.complete /\ f.id \in processedMessageIds

(***************************************************************************)
(* C15  No unbounded blocking: whatever arrives on stdin, readStdin        *)
(* resolves (with data or null) and the run of the bridge comes to its     *)
(* end.                                                                    *)
(***************************************************************************)
C15_StdinResolvesAndRunEnds == <>(stdinData # <<>> /\ runPc = "exited")

(***************************************************************************)
(* C16  Router robustness.  An envelope whose type has no case in          *)
(* handleMessage, or whose artifact action has no case in                  *)
(* handleArtifactMessage, is logged and ignored: the step that dispatches  *)
(* it adds one warning and changes no artifact, sends nothing, opens no    *)
(* dialog, is not a handler error and leaves the listener registered; and  *)
(* an envelope dispatched after it has the effect it would have had        *)
(* without it.                                                             *)
(***************************************************************************)
Unhandled(e) ==
  \/ e.type \notin HandledTypes
  \/ e.type = "artifact" /\ e.payload /\ e.action \notin HandledActions

C16_UnknownIsIgnored ==
  /\ [][(dispatched' = dispatched + 1 /\ Unhandled(lastDispatch'))
          => /\ artifacts' = artifacts
             /\ routerSent' = routerSent
             /\ routerErrors' = routerErrors
             /\ reviewDialogs' = reviewDialogs
             /\ optionDialogs' = optionDialogs
             /\ listening' = listening
             /\ routerWarnings' = routerWarnings + 1]_vars
  /\ [](\A u \in {x \in Envelopes : Unhandled(x)}, e \in Envelopes :
          onDidReceiveMessage(onDidReceiveMessage(Handler, u), e)
            = [onDidReceiveMessage(Handler, e) EXCEPT !.warnings = @ + 1])

\* an unknown artifact action was dispatched, as the second envelope, to a
\* handler that holds artifacts; it is the only warning so far
C16_Witness ==
  /\ dispatched >= 2
  /\ lastDispatch.type = "artifact"
  /\ Unhandled(lastDispatch)
  /\ routerWarnings = 1
  /\ DOMAIN artifacts # {}

(***************************************************************************)
(* C17  Inbound step order.  For a newly seen inbox file the three steps   *)
(* run in the order add id, emit, move.  The emit then follows the add     *)
(* with nothing between them that can fail, so once a discovery step is    *)
(* over every id of the processed-id set has been emitted, whether or not  *)
(* the move that comes last succeeded.                                     *)
(***************************************************************************)
C17_EmitFollowsAdd == \A id \in processedMessageIds : id \in Range(received)

(***************************************************************************)
(* C18  Eventual inbound delivery despite transient I/O failure.  While    *)
(* the editor side keeps polling, every complete envelope file in inbox    *)
(* is eventually emitted, and emitted exactly once, even when the move to  *)
(* processed fails on some ticks.                                          *)
(***************************************************************************)
TimesReceived(id) == Cardinality({i \in 1..Len(received) : received[i] = id})

C18_EventuallyEmittedOnce ==
  \A t \in 0..MaxClock, r \in RandSuffixes :
    LET id == createMessage(t, r).id IN
    (\E f \in inbox : f.id = id /\ f.complete) ~> (TimesReceived(id) = 1)

(***************************************************************************)
(* C19  Malformed inbox file.  A file of inbox whose content does not      *)
(* decode (it is half-written) is neither deleted nor moved, its id is not *)
(* in the processed-id set and no envelope with its id has been emitted;   *)
(* a poll tick still delivers every other file that is complete and not    *)
(* yet seen, wherever the undecodable file sorts; and the file is decoded  *)
(* again on each tick: the tick after its content is complete delivers it. *)
(***************************************************************************)
Undecodable == {f \in inbox : ~f.complete}

C19_MalformedFileIsRetried ==
  /\ [](\A f \in Undecodable :
          f.id \notin processedMessageIds /\ f.id \notin Range(received))
  /\ [][\A f \in Undecodable :
          /\ f.id \notin FileIds(processed')
          /\ \/ f \in inbox'
             \/ /\ [f EXCEPT !.complete = TRUE] \in inbox'
                /\ f.id \notin processedMessageIds']_vars
  /\ [](LET mb == pollInbox(Mailbox, {}) IN
          /\ Undecodable \subseteq mb.inbox
          /\ \A f \in inbox :
               (f.complete /\ f.id \notin processedMessageIds)
                 => f \in mb.processed /\ f.id \in Range(mb.received))

\* a half-written file is in inbox while a file that sorts after it has
\* been delivered
C19_Witness ==
  \E f \in Undecodable : \E g \in processed :
    NameLess(f, g) /\ g.id \in Range(received)

(***************************************************************************)
(* C20  Dedup seeding.  When the editor side's Inbound Delivery starts     *)
(* (a new IPCClient has run initialize), its processed-id set holds the id *)
(* of every envelope file that was in the processed directory at that      *)
(* moment.                                                                 *)
(***************************************************************************)
C20_SetSeededFromProcessed ==
  [][restarts' = restarts + 1
       => FileIds(processed) \subseteq processedMessageIds']_vars

(***************************************************************************)
(* C21  Bounded dedup set.  The processed-id set never exceeds a fixed     *)
(* bound, however many messages are delivered.  A bound that does not      *)
(* depend on the number of messages is below that number in a long enough  *)
(* run; here the run has up to MaxMessages messages and the set is to stay *)
(* below that.                                                             *)
(***************************************************************************)
C21_DedupSetBounded == Cardinality(processedMessageIds) < MaxMessages

(***************************************************************************)
(* C22  Adaptive polling.  After a poll tick the next interval is          *)
(* ACTIVE_INTERVAL if and only if a watch event or a poll-found message    *)
(* occurred within IDLE_THRESHOLD, and IDLE_INTERVAL otherwise; a tick     *)
(* that itself finds a message therefore leaves the active interval.  A    *)
(* step of the running client that leaves the pending watch events alone   *)
(* and delivers a message, or changes the interval, is a poll tick.        *)
(***************************************************************************)
PollFound == Len(received') > Len(received)

C22_ActiveIffRecentActivity ==
  [][(restarts' = restarts /\ watchEvents' = watchEvents)
       => /\ PollFound => currentPollInterval' = ACTIVE_INTERVAL
          /\ currentPollInterval' # currentPollInterval
               => currentPollInterval' =
                    IF activity = "recent" \/ PollFound
                    THEN ACTIVE_INTERVAL ELSE IDLE_INTERVAL]_vars

(***************************************************************************)
(* C23  Inbound order.  Envelopes the bridge wrote to inbox one after      *)
(* another are emitted in the order they were written, because the         *)
(* lexical order of the file names is the order of creation, also within   *)
(* one millisecond.  In particular the envelopes one listing of inbox      *)
(* (a poll tick, or the initial poll) emits come out in written order.     *)
(***************************************************************************)
WrittenAt(id) == CHOOSE i \in 1..Len(written) : written[i] = id

C23_PollEmitsInWrittenOrder ==
  [][watchEvents' = watchEvents
       => \A i, j \in (Len(received) + 1)..Len(received') :
            i < j => WrittenAt(received'[i]) < WrittenAt(received'[j])]_vars

(***************************************************************************)
(* C24  The handshake is a one-shot state machine.  A waitForApproval call *)
(* that has returned has exactly one of the outcomes approved, rejected    *)
(* (reason rejected or custom) and timed out; it has deleted at most one   *)
(* outbox file, and one exactly when the outcome is not a timeout; the     *)
(* deleted file decides the outcome and is the first deciding file in name *)
(* order, the others are still in outbox; and once returned, the outcome   *)
(* and the outbox no longer change.                                        *)
(***************************************************************************)
Outcomes ==
  { [approved |-> TRUE, reason |-> ""],
    [approved |-> FALSE, reason |-> "rejected"],
    [approved |-> FALSE, reason |-> "custom"],
    [approved |-> FALSE, reason |-> "timeout"] }

Deciding(f) == f.content # <<>> /\ Decide(f.content[1], PlanId) # NoDecision

C24_OneShot ==
  /\ [](/\ Cardinality(consumed) <= 1
        /\ (consumed # {}) => Returned
        /\ Returned =>
             /\ outcome \in Outcomes
             /\ (consumed # {}) <=> (outcome.reason # "timeout")
             /\ \A f \in consumed :
                  /\ f \notin responseFiles
                  /\ Deciding(f)
                  /\ outcome = Decide(f.content[1], PlanId)
                  /\ \A g \in responseFiles : Deciding(g) => f.name < g.name)
  /\ [][Returned => /\ outcome' = outcome
                    /\ responseFiles' = responseFiles
                    /\ consumed' = consumed]_vars

\* the first of two deciding files in name order was consumed and decided;
\* the second, which would have decided otherwise, is still in outbox
C24_Witness ==
  /\ Returned
  /\ \E f \in consumed, g \in responseFiles :
       /\ Deciding(g)
       /\ Decide(g.content[1], PlanId) # outcome

(***************************************************************************)
(* C25  Handshake frame.  waitForApproval(planId) neither deletes nor      *)
(* modifies an outbox file whose payload.artifactId is not planId, nor a   *)
(* file for planId that is no approval, rejection or option selection      *)
(* (a status message, feedback with action review-submitted), nor a file   *)
(* that does not decode: every such file of outbox is in outbox, as it     *)
(* was, after every step.                                                  *)
(***************************************************************************)
IsSignal(f) ==
  /\ f.content # <<>>
  /\ LET c == f.content[1] IN
     /\ c.artifactId = PlanId
     /\ \/ c.type = "feedback" /\ c.action \in {"proceed", "reject"}
        \/ c.type = "option-response"
           /\ (c.selectedOptionId \in {"approve", "reject"} \/ c.customResponse # "")

C25_OtherFilesUntouched ==
  [][\A f \in responseFiles : ~IsSignal(f) => f \in responseFiles']_vars

\* the handshake has consumed a signal that sorts after a readable file
\* which is no signal for this plan; that file is in outbox
C25_Witness ==
  /\ Returned
  /\ \E f \in consumed, g \in responseFiles :
       /\ g.name < f.name
       /\ g.content # <<>>
       /\ ~IsSignal(g)

(***************************************************************************)
(* C26  A malformed outbox file does not block the handshake.  With a file *)
(* that does not decode and a well-formed approval for the plan in outbox, *)
(* waitForApproval finds the approval and returns approved, whatever the   *)
(* order of the two names.  A scan reads the same names in the same order  *)
(* every time, so the scan that ends with exactly these two files in       *)
(* outbox is the one that returns approved.                                *)
(***************************************************************************)
Approval == <<Response("feedback", PlanId, "proceed", "", "")>>

C26_ApprovalFoundBesideMalformed ==
  [][( /\ hsPc = "scan" /\ hsPc' # "scan"
       /\ \E bad, ok \in responseFiles :
            /\ responseFiles = {bad, ok}
            /\ bad.content = <<>>
            /\ ok.content = Approval )
       => hsPc' = "update" /\ outcome'.approved]_vars

(***************************************************************************)
(* C27  Single winner per response file.  When two handshakes poll the     *)
(* same outbox for the same plan, at most one of them returns a decision   *)
(* based on a given response file: no two returned decisions come from the *)
(* same file, a handshake returns approved or rejected only from a file it *)
(* has itself removed, and the handshake whose unlinkSync finds the file   *)
(* gone returns nothing and goes on polling.                               *)
(***************************************************************************)
C27_SingleWinner ==
  /\ [](\A p, q \in Handshakes :
          /\ (p # q /\ raceFrom[p] # 0) => raceFrom[p] # raceFrom[q]
          /\ (raceResult[p] # NoDecision /\ raceResult[p].reason # "timeout")
               => raceFrom[p] # 0 /\ \A f \in raceOutbox : f.name # raceFrom[p])
  /\ [][\A p \in Handshakes :
          (racePc[p] = "unlink" /\ racePc'[p] # "unlink"
           /\ raceRead[p][1] \notin raceOutbox)
            => racePc'[p] = "loop" /\ raceResult'[p] = NoDecision]_vars

\* both handshakes had read the same file; one has returned from it, the
\* other found it gone at its unlinkSync and is polling again
C27_Witness ==
  \E p, q \in Handshakes :
    /\ p # q
    /\ raceFrom[p] # 0 /\ raceResult[p].approved
    /\ racePc[q] = "unlink"
    /\ raceRead[q][1].name = raceFrom[p]

(***************************************************************************)
(* C28  No stale approval.  waitForApproval returns approved only on a     *)
(* response written for the current handshake: a response file that was in *)
(* outbox before the handshake started never makes it return approved.     *)
(***************************************************************************)
C28_NoStaleApproval ==
  (Returned /\ outcome.approved) => \A f \in consumed : ~f.stale

(***************************************************************************)
(* C29  End-to-end approval.  Once the bridge waits in waitForApproval, an *)
(* approval the user makes in the editor before the timeout (Proceed in    *)
(* the panel, or the Approve option) and that the editor side writes to    *)
(* outbox leads to waitForApproval returning approved.                     *)
(***************************************************************************)
C29_ApprovalLeadsToApproved ==
  (approval = "written") ~> (Returned /\ outcome.approved)

(***************************************************************************)
(* C30  Observer change filter: the state observer fires                   *)
(* onDidChangeClaudeState only with the value it has just read from        *)
(* state/current.json, and only when that value differs from the last      *)
(* value it emitted (none at first); so no two events in a row carry equal *)
(* values, and a file that cannot be decoded fires no event.               *)
(***************************************************************************)
C30_FiresOnlyOnChange ==
  [][ fired' # fired =>
        /\ stateFile # <<>>
        /\ Parses(stateFile[1])
        /\ fired' = Append(fired, [value |-> stateFile[1],
                                   publish |-> Len(published)])
        /\ fired # <<>> => fired[Len(fired)].value # stateFile[1] ]_vars

\* Two publishes wrote equal values; the observer emitted the first before
\* the second was written, has read the file again since the second, and
\* emitted nothing for it.
C30_Witness ==
  /\ Len(published) = 2
  /\ published[1] = published[2]
  /\ stateFile = <<published[2]>>
  /\ ~stateWatchPending
  /\ Len(fired) = 1
  /\ fired[1].publish = 1

(***************************************************************************)
(* C31  Last value wins: once the last publish is on disk and the observer *)
(* has handled the change notification that followed it, getClaudeState    *)
(* returns the last published state, whatever was published before and     *)
(* whether or not the observer ever saw it.                                *)
(***************************************************************************)
C31_LastValueWins ==
  ( /\ published # <<>>
    /\ stateFile = <<published[Len(published)]>>
    /\ ~stateWatchPending )
  => currentClaudeState = <<published[Len(published)]>>

\* Two different states were published, the observer never saw the first,
\* and holds the second.
C31_Witness ==
  /\ Len(published) = 2
  /\ published[1].state # published[2].state
  /\ stateFile = <<published[2]>>
  /\ ~stateWatchPending
  /\ Len(fired) = 1
  /\ fired[1].publish = 2
  /\ currentClaudeState = <<published[2]>>

(***************************************************************************)
(* C32  Queue liveness: whenever the outbound queue is non-empty a drain   *)
(* loop is active; every promise returned by send eventually settles, no   *)
(* message stays queued forever; a promise is resolved only with its file  *)
(* in outbox and rejected only after the retry budget of failed writes.    *)
(* Settling is stated through the queue: a promise is pending exactly      *)
(* while its message is queued, and the queue is empty again and again, so *)
(* every queued message leaves it and its promise settles.                 *)
(***************************************************************************)
C32_EverySendSettles ==
  /\ [](messageQueue # <<>> => (isProcessing /\ drainPc # "idle"))
  /\ [](\A n \in 1..Len(sendLog) :
          /\ sendLog[n].promise = "resolved" =>
               \E k \in 1..Len(outbox) : outbox[k].n = n
          /\ sendLog[n].promise = "rejected" =>
               sendLog[n].failures = RetryLimit(retryAttempts))
  /\ [](\A n \in 1..Len(sendLog) :
          sendLog[n].promise = "pending" <=>
            \E k \in 1..Len(messageQueue) : messageQueue[k].message.n = n)
  /\ []<>(messageQueue = <<>>)

\* Three sends have settled, one of them rejected and one resolved after a
\* failed write, and the drain loop has ended.
C32_Witness ==
  /\ Len(sendLog) = 3
  /\ \A n \in 1..3 : sendLog[n].promise # "pending"
  /\ \E n \in 1..3 : sendLog[n].promise = "rejected"
  /\ \E n \in 1..3 : sendLog[n].promise = "resolved" /\ sendLog[n].failures >= 1
  /\ messageQueue = <<>>
  /\ ~isProcessing

(***************************************************************************)
(* C33  Drop and continue: a message that has exhausted its retries is out *)
(* of the queue and is never written to outbox; in the step that drops it  *)
(* the drain loop goes on with the next queued message, if there is one,   *)
(* which has had no attempt before and gets its first one now; and         *)
(* every message is dropped only after its own full number of failed       *)
(* attempts, whatever happened to the messages before it.                  *)
(***************************************************************************)
C33_DropAndContinue ==
  /\ [](\A n \in 1..Len(sendLog) :
          sendLog[n].promise = "rejected" =>
            /\ \A k \in 1..Len(messageQueue) : messageQueue[k].message.n # n
            /\ \A k \in 1..Len(outbox) : outbox[k].n # n
            /\ sendLog[n].failures = RetryLimit(retryAttempts)
            /\ sendLog[n].attempts = RetryLimit(retryAttempts))
  /\ [][\A n \in 1..Len(sendLog) :
          (sendLog[n].promise = "pending" /\ sendLog'[n].promise = "rejected") =>
            /\ Head(messageQueue).message.n = n
            /\ messageQueue' = Tail(messageQueue)
            /\ messageQueue' = <<>> => ~isProcessing'
            /\ messageQueue' # <<>> =>
                 LET next == Head(messageQueue') IN
                 /\ isProcessing'
                 /\ drainPc' \in {"written", "failed"}
                 /\ next.attempts = 0
                 /\ sendLog[next.message.n].attempts = 0
                 /\ sendLog'[next.message.n].attempts = 1]_vars

\* The first message was dropped; the second, with a third queued behind
\* it, has failed once and is in its retry delay.
C33_Witness ==
  /\ Len(sendLog) = 3
  /\ sendLog[1].promise = "rejected"
  /\ Len(messageQueue) = 2
  /\ Head(messageQueue).message.n = 2
  /\ Head(messageQueue).attempts = 1
  /\ sendLog[2].failures = 1
  /\ drainPc = "delay"

(***************************************************************************)
(* C34  Lazy directory creation on place: with no fault other than a       *)
(* missing mailbox directory, every write of an envelope succeeds on both  *)
(* sides: no send of the editor side is dropped (its promise rejected),    *)
(* and every bridge writeMessage writes its file.                          *)
(***************************************************************************)
C34_MissingDirNeverDrops ==
  /\ \A n \in 1..Len(sendLog) : sendLog[n].promise # "rejected"
  /\ \A k \in 1..Len(bridgePlaced) : bridgePlaced[k].written

(***************************************************************************)
(* C35  SessionState shape: after any series of hooks (Write, Edit, Bash,  *)
(* TodoWrite, EnterPlanMode, in any order, with or without a state file at *)
(* the start), the state file, when there is one, has sessionId,           *)
(* startedAt, changedFiles and keyPoints.                                  *)
(***************************************************************************)
C35_SessionShape ==
  sessionFile # <<>> =>
    {"sessionId", "startedAt", "changedFiles", "keyPoints"} \subseteq sessionFile[1].fields

\* The list of the document, empty when there is no file or no list.
ChangedFiles == IF sessionFile = <<>> THEN <<>> ELSE sessionFile[1].changedFiles

TrackedFor(path) == {i \in 1..Len(tracked) : tracked[i].filePath = path}

EntriesFor(path) == {i \in 1..Len(ChangedFiles) : ChangedFiles[i].filePath = path}

RECURSIVE SumLines(_, _, _)
SumLines(hist, path, added) ==
  IF hist = <<>> THEN 0
  ELSE (IF Head(hist).filePath # path THEN 0
        ELSE IF added THEN Head(hist).linesAdded ELSE Head(hist).linesRemoved)
       + SumLines(Tail(hist), path, added)

(***************************************************************************)
(* C36  Change tracking: after any sequential series of hooks since the    *)
(* last clear, changedFiles has exactly one entry for every path a Write,  *)
(* Edit or rm hook was run for and none for any other path; the entry's    *)
(* changeCount is the number of those hooks for the path, its linesAdded   *)
(* and linesRemoved are the sums over them.                                *)
(***************************************************************************)
C36_ChangeTracking ==
  \A path \in SessionPaths :
    /\ Cardinality(EntriesFor(path)) = IF TrackedFor(path) = {} THEN 0 ELSE 1
    /\ \A i \in EntriesFor(path) :
         /\ ChangedFiles[i].changeCount = Cardinality(TrackedFor(path))
         /\ ChangedFiles[i].linesAdded = SumLines(tracked, path, TRUE)
         /\ ChangedFiles[i].linesRemoved = SumLines(tracked, path, FALSE)

\* Every process has saved.
BothSaved == \A p \in Procs : hooks[p].pc = "done"

StepAt(p, step) ==
  CHOOSE i \in 1..Len(hookOrder) : hookOrder[i] = [proc |-> p, step |-> step]

LastSaver == CHOOSE p \in Procs : \A q \in Procs : StepAt(q, "save") <= StepAt(p, "save")

FirstSaver == CHOOSE p \in Procs : p # LastSaver

\* The first saver had saved before the last saver loaded.
Serial == StepAt(FirstSaver, "save") < StepAt(LastSaver, "load")

\* The changeCount the document holds for a path, 0 without an entry.
DocCount(path) ==
  IF EntriesFor(path) = {} THEN 0
  ELSE ChangedFiles[CHOOSE i \in EntriesFor(path) : TRUE].changeCount

(***************************************************************************)
(* C37  SessionState lost update: two processes run one tracked hook each  *)
(* on the same project.  When the load and save of one come before the     *)
(* load of the other, the final document counts every tracked call; in     *)
(* every other interleaving the update of the process that saved first is  *)
(* missing from it (and nothing else is).                                  *)
(***************************************************************************)
C37_LostUpdate ==
  BothSaved =>
    \A path \in SessionPaths :
      DocCount(path) =
        Cardinality(TrackedFor(path))
        - (IF ~Serial /\ hooks[FirstSaver].call.filePath = path THEN 1 ELSE 0)

\* Both processes loaded before either saved, for the same path: the
\* document counts one call fewer than were tracked.
C37_Witness ==
  /\ BothSaved
  /\ ~Serial
  /\ hooks[1].call.filePath = hooks[2].call.filePath
  /\ DocCount(hooks[1].call.filePath) < Cardinality(TrackedFor(hooks[1].call.filePath))

(***************************************************************************)
(* C38  Session clear: a run with --clear-session leaves no state file and *)
(* changes nothing in the mailboxes; the first tracked call after it       *)
(* leaves a document of a new session whose changedFiles holds that call   *)
(* alone, and writes a walkthrough message; the first walkthrough message  *)
(* after the clear has action 'create'.                                    *)
(***************************************************************************)
C38_SessionClear ==
  /\ [][clears' # clears =>
          /\ sessionFile' = <<>>
          /\ UNCHANGED <<walkthroughs, inboundVars, outbox, outboxDir, inboxDir,
                         bridgePlaced>>]_vars
  /\ [][(clears > 0 /\ tracked = <<>> /\ Len(tracked') = 1) =>
          /\ sessionFile' # <<>>
          /\ sessionFile'[1].startedAt = now
          /\ sessionFile'[1].changedFiles =
               addFileChange(FreshState(now), tracked'[1]).changedFiles
          /\ walkthroughs' = Append(walkthroughs, [action |-> "create", final |-> FALSE])]_vars
  /\ [](clears > 0 /\ Len(walkthroughs) > walksAtClear =>
          walkthroughs[walksAtClear + 1].action = "create")

\* A line that goes to the summary when no section is open
IsBodyLine(line) == trim(line) # <<>> /\ ~startsWith(line, <<"#">>)

(***************************************************************************)
(* C39  Parser defaults: parsePlanMarkdown returns a result for every      *)
(* input; with no level-1 heading line ("# ...") in the input the title is *)
(* 'Implementation Plan'; with no level-2 heading line ("## ...") there    *)
(* are no sections and the summary is the non-blank lines that do not      *)
(* start with '#', in order, joined by newlines and trimmed.               *)
(***************************************************************************)
C39_ParserDefaults ==
  parsed # <<>> =>
    /\ DOMAIN parsed[1] = {"title", "summary", "sections"}
    /\ HeadingLines(<<"#", " ">>) = <<>> => parsed[1].title = DefaultTitle
    /\ HeadingLines(<<"#", "#", " ">>) = <<>> =>
         LET body == SelectSeq(split(planContent), IsBodyLine)
         IN /\ parsed[1].sections = <<>>
            /\ parsed[1].summary = IF body = <<>> THEN <<>> ELSE trim(join(body))

\* A document without heading lines, with two body lines and a third line
\* that is none, has been parsed.
C39_Witness ==
  /\ parsed # <<>>
  /\ HeadingLines(<<"#", " ">>) = <<>>
  /\ HeadingLines(<<"#", "#", " ">>) = <<>>
  /\ Len(split(planContent)) = 3
  /\ Len(SelectSeq(split(planContent), IsBodyLine)) = 2
  /\ parsed[1].title = DefaultTitle

\* The positions, among the lines of the input, of the level-2 heading lines
SectionStarts ==
  LET lines == split(planContent)
      RECURSIVE From(_)
      From(i) ==
        IF i > Len(lines) THEN <<>>
        ELSE IF startsWith(lines[i], <<"#", "#", " ">>) THEN <<i>> \o From(i + 1)
        ELSE From(i + 1)
  IN From(1)

\* The file references on the lines i of section k that satisfy Keep
RefsOfSection(k, Keep(_)) ==
  LET lines == split(planContent)
      first == SectionStarts[k] + 1
      last == IF k < Len(SectionStarts) THEN SectionStarts[k + 1] - 1 ELSE Len(lines)
  IN UNION {Range(fileMatches(lines[i])) : i \in {j \in first..last : Keep(lines[j])}}

AnyLine(line) == TRUE

NotLevel1(line) == ~startsWith(line, <<"#", " ">>)

(***************************************************************************)
(* C40  Section file references: in every section returned the files list  *)
(* has no duplicates; the changes list has the same length and order, each *)
(* entry being {filePath: the file, changeType: 'modify'}; the files are   *)
(* those referenced on the lines of the section, so a file referenced      *)
(* several times in a section is there once, and a file referenced in two  *)
(* sections is in both.                                                    *)
(***************************************************************************)
C40_SectionFiles ==
  parsed # <<>> =>
    \A k \in 1..Len(parsed[1].sections) :
      LET sec == parsed[1].sections[k] IN
      /\ \A i, j \in 1..Len(sec.files) : sec.files[i] = sec.files[j] => i = j
      /\ Len(sec.changes) = Len(sec.files)
      /\ \A i \in 1..Len(sec.files) :
           /\ sec.changes[i].filePath = sec.files[i]
           /\ sec.changes[i].changeType = "modify"
      /\ Range(sec.files) \subseteq RefsOfSection(k, AnyLine)
      /\ RefsOfSection(k, NotLevel1) \subseteq Range(sec.files)

\* Two sections have been parsed, each of one line that references a.b
\* twice; each lists a.b once.
C40_Witness ==
  /\ parsed # <<>>
  /\ Len(parsed[1].sections) = 2
  /\ SectionStarts = <<1, 3>>
  /\ Len(split(planContent)) = 4
  /\ \A i \in {2, 4} : Len(fileMatches(split(planContent)[i])) = 2
  /\ \A k \in {1, 2} : parsed[1].sections[k].files = << <<"a", ".", "b">> >>

=============================================================================
